---- MODULE Spec2Model ----
(***************************************************************************)
(* Coordination kernel of the service-governance daemon: the in-memory     *)
(* registry store, the Registry facade, the EventWorker handlers and the   *)
(* single-consumer event pipeline that feeds them.                         *)
(***************************************************************************)
EXTENDS Integers, Sequences, FiniteSets, TLC

\* ------------------------------------------------------------------ bounds
\* events handled by the worker in one behaviour
MaxEvents == 4
\* HealthCheckRetry of the configuration (retries after the first attempt)
MaxRetries == 1
\* EventQueueSize of the configuration: capacity of the queue's buffer
BufferSize == 2
\* events the queue accepts in one behaviour of the pipeline
MaxAccepted == 4
\* handlers a queue that is not Sequential may run at once
MaxWorkers == 2

\* ------------------------------------------------------------ value domains
StatusHealthy == "healthy"
StatusUnhealthy == "unhealthy"
StatusUnknown == "unknown"
Statuses == {StatusHealthy, StatusUnhealthy, StatusUnknown}

EventTypeRegister == "register"
EventTypeUnregister == "unregister"
EventTypeUpdate == "update"
EventTypeReconcile == "reconcile"

EventRegister == "register"
EventUnregister == "unregister"
EventHealthCheck == "healthcheck"
EventReconcile == "reconcile"

ZeroTime == 0

ServiceNames == {"A", "B"}
PodNames == {"p1", "p2"}
\* the pods that exist: one pod of group A, two pods of group B
Pods == {<<"A", "p1">>, <<"B", "p1">>, <<"B", "p2">>}
\* subscription lists a registration may carry: empty, plain, self-including,
\* a repeated group and an empty-string group
SubscriptionLists == {<<>>, <<"B">>, <<"A", "B">>, <<"B", "B">>, <<"">>}
\* A:p1 is the subscriber that varies its list; B:p1 may watch its own group
SubscriptionsOf(s, p) ==
  IF s = "A" THEN SubscriptionLists
  ELSE IF p = "p1" THEN {<<>>, <<"B">>}
  ELSE {<<>>}

\* the JSON body of POST /register
Registrations ==
  { [ServiceName |-> s, PodName |-> p,
     Providers |-> <<[protocol |-> "http", ip |-> s \o "." \o p, port |-> 8080]>>,
     HealthCheckURL |-> "http://" \o s \o "." \o p \o "/h",
     NotificationURL |-> "http://" \o s \o "." \o p \o "/n",
     Subscriptions |-> subs] :
    s \in ServiceNames, p \in PodNames, subs \in SubscriptionLists }
ValidRegistrations ==
  { r \in Registrations : /\ <<r.ServiceName, r.PodName>> \in Pods
                          /\ r.Subscriptions \in SubscriptionsOf(r.ServiceName, r.PodName) }

\* faulty variant: the key is the service name alone
GetKeyServiceOnly(service) == service.ServiceName

\* the composite key of a pod
GetKey(service) == service.ServiceName \o ":" \o service.PodName

Keys == { sp[1] \o ":" \o sp[2] : sp \in Pods }

\* ------------------------------------------------------------ small helpers
EmptyMap == [k \in {} |-> 0]
MapPut(m, k, v) == [x \in (DOMAIN m) \cup {k} |-> IF x = k THEN v ELSE m[x]]
MapDelete(m, k) == [x \in (DOMAIN m) \ {k} |-> m[x]]
Range(s) == { s[i] : i \in DOMAIN s }
\* every order in which a Go map iteration can yield the elements of S
Orderings(S) ==
  { f \in [1..Cardinality(S) -> S] : \A i, j \in 1..Cardinality(S) : f[i] = f[j] => i = j }
\* index of the first element of s equal to x, 0 when there is none
IndexOf(s, x) ==
  IF \E i \in DOMAIN s : s[i] = x
    THEN CHOOSE i \in DOMAIN s : s[i] = x /\ \A j \in 1..(i-1) : s[j] # x
    ELSE 0

\* --------------------------------------------------------------- MemoryStore
NoService == [nil |-> TRUE]

NewMemoryStore == [services |-> EmptyMap, subscriptions |-> EmptyMap]

SaveService(m, service) ==
  IF GetKey(service) = ""
    THEN [store |-> m, err |-> TRUE]
    ELSE [store |-> [m EXCEPT !.services = MapPut(@, GetKey(service), service)],
          err |-> FALSE]

GetService(m, key) ==
  IF key \in DOMAIN m.services
    THEN [service |-> m.services[key], err |-> FALSE]
    ELSE [service |-> NoService, err |-> TRUE]

\* the pods of one service group, as a set (the map iteration fixes no order)
ServicesByName(m, serviceName) ==
  { m.services[k] : k \in { x \in DOMAIN m.services : m.services[x].ServiceName = serviceName } }

\* the result lists GetServicesByName can return
GetServicesByName(m, serviceName) == Orderings(ServicesByName(m, serviceName))

\* the result lists GetAllServices can return
GetAllServices(m) == Orderings({ m.services[k] : k \in DOMAIN m.services })

DeleteService(m, key) ==
  IF key \notin DOMAIN m.services
    THEN [store |-> m, err |-> TRUE]
    ELSE [store |-> [m EXCEPT !.services = MapDelete(@, key)], err |-> FALSE]

StoreUpdateHealthStatus(m, key, status, timestamp) ==
  IF key \notin DOMAIN m.services
    THEN [store |-> m, err |-> TRUE]
    ELSE [store |-> [m EXCEPT !.services[key].Status = status,
                              !.services[key].LastHealthCheck = timestamp],
          err |-> FALSE]

AddSubscription(m, subscriberKey, serviceGroup) ==
  IF subscriberKey = "" THEN [store |-> m, err |-> TRUE]
  ELSE IF serviceGroup = "" THEN [store |-> m, err |-> TRUE]
  ELSE LET subscribers == IF serviceGroup \in DOMAIN m.subscriptions
                            THEN m.subscriptions[serviceGroup] ELSE <<>>
       IN IF IndexOf(subscribers, subscriberKey) # 0
            THEN [store |-> m, err |-> FALSE]
            ELSE [store |-> [m EXCEPT !.subscriptions =
                               MapPut(@, serviceGroup, Append(subscribers, subscriberKey))],
                  err |-> FALSE]

\* faulty variant: the emptied subscriber list is left in the map
RemoveSubscriptionKeepEmpty(m, subscriberKey, serviceGroup) ==
  IF serviceGroup \notin DOMAIN m.subscriptions THEN m
  ELSE LET subscribers == m.subscriptions[serviceGroup]
           i == IndexOf(subscribers, subscriberKey)
           rest == SubSeq(subscribers, 1, i - 1) \o SubSeq(subscribers, i + 1, Len(subscribers))
       IN IF i = 0 THEN m
          ELSE [m EXCEPT !.subscriptions = MapPut(@, serviceGroup, rest)]

RemoveSubscription(m, subscriberKey, serviceGroup) ==
  IF serviceGroup \notin DOMAIN m.subscriptions THEN m
  ELSE LET subscribers == m.subscriptions[serviceGroup]
           i == IndexOf(subscribers, subscriberKey)
           rest == SubSeq(subscribers, 1, i - 1) \o SubSeq(subscribers, i + 1, Len(subscribers))
       IN IF i = 0 THEN m
          ELSE IF Len(rest) = 0
            THEN [m EXCEPT !.subscriptions = MapDelete(@, serviceGroup)]
            ELSE [m EXCEPT !.subscriptions = MapPut(@, serviceGroup, rest)]

\* the loop of RemoveAllSubscriptions when the range over the map yields the
\* groups in the given order; a group deleted before it is reached is not
\* yielded
RECURSIVE RemoveAllInOrder(_, _, _)
RemoveAllInOrder(m, subscriberKey, order) ==
  IF order = <<>> THEN m
  ELSE IF Head(order) \notin DOMAIN m.subscriptions
    THEN RemoveAllInOrder(m, subscriberKey, Tail(order))
    ELSE RemoveAllInOrder(RemoveSubscription(m, subscriberKey, Head(order)),
                          subscriberKey, Tail(order))

\* faulty variant: the range ends after the first group it yields
RemoveAllSubscriptionsFirstGroupOnly(m, subscriberKey) ==
  { RemoveAllInOrder(m, subscriberKey, IF order = <<>> THEN <<>> ELSE <<Head(order)>>) :
      order \in Orderings(DOMAIN m.subscriptions) }

\* the stores RemoveAllSubscriptions can leave: one for every order in which
\* the range can yield the groups of the map
RemoveAllSubscriptions(m, subscriberKey) ==
  { RemoveAllInOrder(m, subscriberKey, order) :
      order \in Orderings(DOMAIN m.subscriptions) }

GetSubscribers(m, serviceGroup) ==
  IF serviceGroup \in DOMAIN m.subscriptions THEN m.subscriptions[serviceGroup] ELSE <<>>

RECURSIVE CollectServices(_, _)
CollectServices(m, subscribers) ==
  IF subscribers = <<>> THEN <<>>
  ELSE LET got == GetService(m, Head(subscribers))
       IN IF got.err
            THEN CollectServices(m, Tail(subscribers))
            ELSE <<got.service>> \o CollectServices(m, Tail(subscribers))

\* faulty variant: every stored service is returned, subscribed or not
GetSubscriberServicesAllStored(m, serviceGroup) ==
  CHOOSE services \in Orderings({ m.services[k] : k \in DOMAIN m.services }) : TRUE

GetSubscriberServices(m, serviceGroup) == CollectServices(m, GetSubscribers(m, serviceGroup))

\* ------------------------------------------------------------------ Registry
RECURSIVE addSubscriptions(_, _, _)
addSubscriptions(m, subscriberKey, subscriptions) ==
  IF subscriptions = <<>> THEN m
  ELSE addSubscriptions(AddSubscription(m, subscriberKey, Head(subscriptions)).store,
                        subscriberKey, Tail(subscriptions))

RECURSIVE removeSubscriptions(_, _, _)
removeSubscriptions(m, subscriberKey, subscriptions) ==
  IF subscriptions = <<>> THEN m
  ELSE removeSubscriptions(RemoveSubscription(m, subscriberKey, Head(subscriptions)),
                           subscriberKey, Tail(subscriptions))

\* faulty variant: Status is left at the zero value of its type
NewServiceInfoNoStatus(reg, t) ==
  [ServiceName |-> reg.ServiceName, PodName |-> reg.PodName,
   Providers |-> reg.Providers, HealthCheckURL |-> reg.HealthCheckURL,
   NotificationURL |-> reg.NotificationURL, Subscriptions |-> reg.Subscriptions,
   Status |-> "", RegisteredAt |-> t, LastHealthCheck |-> ZeroTime]

NewServiceInfo(reg, t) ==
  [ServiceName |-> reg.ServiceName, PodName |-> reg.PodName,
   Providers |-> reg.Providers, HealthCheckURL |-> reg.HealthCheckURL,
   NotificationURL |-> reg.NotificationURL, Subscriptions |-> reg.Subscriptions,
   Status |-> StatusUnknown, RegisteredAt |-> t, LastHealthCheck |-> ZeroTime]

Register(m, reg, t) ==
  LET serviceInfo == NewServiceInfo(reg, t)
      key == GetKey(serviceInfo)
      old == GetService(m, key)
      m1 == IF ~old.err THEN removeSubscriptions(m, key, old.service.Subscriptions) ELSE m
      saved == SaveService(m1, serviceInfo)
  IN IF saved.err
       THEN [store |-> saved.store, service |-> serviceInfo]
       ELSE [store |-> addSubscriptions(saved.store, key, reg.Subscriptions),
             service |-> serviceInfo]

\* faulty variant: the record is deleted without retracting its subscriptions
UnregisterKeepSubscriptions(m, serviceName, podName) ==
  LET key == serviceName \o ":" \o podName
      got == GetService(m, key)
  IN IF got.err
       THEN [store |-> m, service |-> NoService]
       ELSE [store |-> DeleteService(m, key).store, service |-> got.service]

Unregister(m, serviceName, podName) ==
  LET key == serviceName \o ":" \o podName
      got == GetService(m, key)
  IN IF got.err
       THEN [store |-> m, service |-> NoService]
       ELSE [store |-> DeleteService(removeSubscriptions(m, key, got.service.Subscriptions),
                                     key).store,
             service |-> got.service]

\* faulty variant: the old status is read after the store was updated
UpdateHealthStatusReadAfterWrite(m, key, status, t) ==
  LET got == GetService(m, key)
      upd == StoreUpdateHealthStatus(m, key, status, t)
  IN IF got.err THEN [store |-> m, changed |-> FALSE]
     ELSE IF upd.err THEN [store |-> upd.store, changed |-> FALSE]
     ELSE [store |-> upd.store, changed |-> GetService(upd.store, key).service.Status # status]

UpdateHealthStatus(m, key, status, t) ==
  LET got == GetService(m, key)
      upd == StoreUpdateHealthStatus(m, key, status, t)
  IN IF got.err THEN [store |-> m, changed |-> FALSE]
     ELSE IF upd.err THEN [store |-> upd.store, changed |-> FALSE]
     ELSE [store |-> upd.store, changed |-> got.service.Status # status]

\* faulty variant: Get reports every key as registered
RegistryGetAlwaysExists(m, key) ==
  [service |-> GetService(m, key).service, err |-> FALSE]

\* Registry.Get: the stored record of the key, err when there is none
RegistryGet(m, key) == GetService(m, key)

\* ------------------------------------------------------------------ Notifier
BuildNotificationPayload(serviceName, eventType, pods, t) ==
  [ServiceName |-> serviceName, EventType |-> eventType, Timestamp |-> t,
   Pods |-> [i \in DOMAIN pods |->
               [PodName |-> pods[i].PodName, Status |-> pods[i].Status,
                Providers |-> pods[i].Providers]]]

\* one background sendNotification task per subscriber, in list order
NotifySubscribers(subscribers, payload) ==
  [i \in DOMAIN subscribers |->
     [to |-> GetKey(subscribers[i]), url |-> subscribers[i].NotificationURL,
      payload |-> payload]]

\* ------------------------------------------------------------- HealthChecker
\* what one GET attempt can yield: a 2xx response, another status, or a
\* transport error / timeout
ProbeOutcomes == {"2xx", "non2xx", "error"}
ProbeRuns == [1..(MaxRetries + 1) -> ProbeOutcomes]

RECURSIVE CheckHealthFrom(_, _)
CheckHealthFrom(attempt, responses) ==
  IF attempt > MaxRetries THEN FALSE
  ELSE IF responses[attempt + 1] = "2xx" THEN TRUE
  ELSE CheckHealthFrom(attempt + 1, responses)

CheckHealth(responses) == CheckHealthFrom(0, responses)

GetHealthStatus(responses) ==
  IF CheckHealth(responses) THEN StatusHealthy ELSE StatusUnhealthy

\* --------------------------------------------------------------- EventWorker
\* A handler yields the set of its possible results: the store it leaves, the
\* number of NotifySubscribers calls it made and the sends it dispatched.
Result(m, calls, sent) == [store |-> m, calls |-> calls, sent |-> sent]

\* faulty variant: the group membership is read before Register has run
handleRegisterStalePods(m, reg, t) ==
  LET r == Register(m, reg, t)
      serviceName == r.service.ServiceName
  IN { Result(r.store, 1,
              NotifySubscribers(GetSubscriberServices(r.store, serviceName),
                BuildNotificationPayload(serviceName, EventTypeRegister, servicePods, t))) :
       servicePods \in GetServicesByName(m, serviceName) }

handleRegister(m, reg, t) ==
  LET r == Register(m, reg, t)
      serviceName == r.service.ServiceName
  IN { Result(r.store, 1,
              NotifySubscribers(GetSubscriberServices(r.store, serviceName),
                BuildNotificationPayload(serviceName, EventTypeRegister, servicePods, t))) :
       servicePods \in GetServicesByName(r.store, serviceName) }

\* faulty variant: the group membership is read before Unregister has run
handleUnregisterStalePods(m, serviceName, podName, t) ==
  LET r == Unregister(m, serviceName, podName)
  IN IF r.service = NoService
       THEN { Result(r.store, 0, <<>>) }
       ELSE { Result(r.store, 1,
                NotifySubscribers(GetSubscriberServices(r.store, serviceName),
                  BuildNotificationPayload(serviceName, EventTypeUnregister, servicePods, t))) :
              servicePods \in GetServicesByName(m, serviceName) }

\* faulty variant: the subscribers are read before Unregister has run
handleUnregisterStaleSubscribers(m, serviceName, podName, t) ==
  LET r == Unregister(m, serviceName, podName)
  IN IF r.service = NoService
       THEN { Result(r.store, 0, <<>>) }
       ELSE { Result(r.store, 1,
                NotifySubscribers(GetSubscriberServices(m, serviceName),
                  BuildNotificationPayload(serviceName, EventTypeUnregister, servicePods, t))) :
              servicePods \in GetServicesByName(r.store, serviceName) }

\* faulty variant: no early return when Unregister yields nil
handleUnregisterNoNilCheck(m, serviceName, podName, t) ==
  LET r == Unregister(m, serviceName, podName)
  IN { Result(r.store, 1,
         NotifySubscribers(GetSubscriberServices(r.store, serviceName),
           BuildNotificationPayload(serviceName, EventTypeUnregister, servicePods, t))) :
       servicePods \in GetServicesByName(r.store, serviceName) }

handleUnregister(m, serviceName, podName, t) ==
  LET r == Unregister(m, serviceName, podName)
  IN IF r.service = NoService
       THEN { Result(r.store, 0, <<>>) }
       ELSE { Result(r.store, 1,
                NotifySubscribers(GetSubscriberServices(r.store, serviceName),
                  BuildNotificationPayload(serviceName, EventTypeUnregister, servicePods, t))) :
              servicePods \in GetServicesByName(r.store, serviceName) }

\* faulty variant: subscribers are notified whether or not the status changed
finishHealthCheckAlwaysNotify(m, serviceInfo, serviceKey, newStatus, t) ==
  LET u == UpdateHealthStatus(m, serviceKey, newStatus, t)
  IN { Result(u.store, 1,
         NotifySubscribers(GetSubscriberServices(u.store, serviceInfo.ServiceName),
           BuildNotificationPayload(serviceInfo.ServiceName, EventTypeUpdate,
                                    servicePods, t))) :
       servicePods \in GetServicesByName(u.store, serviceInfo.ServiceName) }

\* the part of handleHealthCheck that follows the probe; serviceInfo is the
\* record the handler read before probing
finishHealthCheck(m, serviceInfo, serviceKey, newStatus, t) ==
  LET u == UpdateHealthStatus(m, serviceKey, newStatus, t)
  IN IF u.changed
       THEN { Result(u.store, 1,
                NotifySubscribers(GetSubscriberServices(u.store, serviceInfo.ServiceName),
                  BuildNotificationPayload(serviceInfo.ServiceName, EventTypeUpdate,
                                           servicePods, t))) :
              servicePods \in GetServicesByName(u.store, serviceInfo.ServiceName) }
       ELSE { Result(u.store, 0, <<>>) }

handleHealthCheck(m, serviceKey, responses, t) ==
  LET got == RegistryGet(m, serviceKey)
  IN IF got.err
       THEN { Result(m, 0, <<>>) }
       ELSE finishHealthCheck(m, got.service, serviceKey, GetHealthStatus(responses), t)

\* the pods of allServices with the given name, in the order of allServices
RECURSIVE GroupOf(_, _)
GroupOf(allServices, serviceName) ==
  IF allServices = <<>> THEN <<>>
  ELSE IF Head(allServices).ServiceName = serviceName
    THEN <<Head(allServices)>> \o GroupOf(Tail(allServices), serviceName)
    ELSE GroupOf(Tail(allServices), serviceName)

\* faulty variant: the loop returns after the first group that has subscribers
ReconcileGroupsFirstOnly(m, allServices, order, t) ==
  LET withSubs == { i \in DOMAIN order : Len(GetSubscriberServices(m, order[i])) > 0 }
      first == CHOOSE i \in withSubs : \A j \in withSubs : i <= j
  IN IF withSubs = {} THEN Result(m, 0, <<>>)
     ELSE Result(m, 1,
            NotifySubscribers(GetSubscriberServices(m, order[first]),
              BuildNotificationPayload(order[first], EventTypeReconcile,
                                       GroupOf(allServices, order[first]), t)))

\* the loop over serviceGroups, visiting the groups in the given order
RECURSIVE ReconcileGroups(_, _, _, _)
ReconcileGroups(m, allServices, order, t) ==
  IF order = <<>> THEN Result(m, 0, <<>>)
  ELSE LET serviceName == Head(order)
           payload == BuildNotificationPayload(serviceName, EventTypeReconcile,
                                               GroupOf(allServices, serviceName), t)
           subscribers == GetSubscriberServices(m, serviceName)
           rest == ReconcileGroups(m, allServices, Tail(order), t)
       IN IF Len(subscribers) > 0
            THEN Result(m, rest.calls + 1, NotifySubscribers(subscribers, payload) \o rest.sent)
            ELSE rest

\* memory-only configuration: GetDatabase() is nil, no SyncFromDatabase
handleReconcile(m, t) ==
  { ReconcileGroups(m, allServices, order, t) :
      allServices \in GetAllServices(m),
      order \in Orderings({ m.services[k].ServiceName : k \in DOMAIN m.services }) }

\* ------------------------------------------------------------------- state
VARIABLES
  cache,     \* the MemoryStore behind the registry
  now,       \* the clock read by time.Now()
  handled,   \* number of events the worker has handled
  last,      \* the last handled event, the store before it, what it sent
  prev,      \* the same for the event handled before the last one
  queue,     \* the event queue's buffer: accepted events not yet dequeued
  running,   \* the handler invocations in progress
  accepted,  \* every event accepted by Enqueue, in acceptance order
  done,      \* the completed handler invocations, in completion order
  burst,     \* keys the health-check scheduler has still to enqueue this tick
  manager,   \* the Manager: position in Start/Stop, Start's result, HTTP server
  consumer,  \* the event queue's consumer loop
  healthScheduler,    \* the HealthCheckScheduler goroutine and its stopChan
  reconcileScheduler, \* the ReconcileScheduler goroutine and its stopChan
  checker,   \* the HealthChecker and the CheckHealth call in progress
  notifier,  \* the Notifier: a NotifySubscribers call and the tasks it started
  db,        \* the optional database behind the DualStore
  producers, \* the HTTP requests that called Enqueue, by request number
  config     \* the configuration a manager was built from and what it set up

registryVars == <<cache, now, handled, last, prev>>
outsideVars == <<checker, notifier, db, producers, config>>
workerVars == <<registryVars, outsideVars>>
lifeVars == <<manager, consumer, healthScheduler, reconcileScheduler>>
queueVars == <<queue, running, accepted, done, burst, lifeVars>>
vars == <<cache, now, handled, last, prev, queue, running, accepted, done, burst,
          manager, consumer, healthScheduler, reconcileScheduler, checker, notifier,
          db, producers, config>>

RegisterEvent(reg) == [kind |-> EventRegister, reg |-> reg]
UnregisterEvent(s, p) == [kind |-> EventUnregister, ServiceName |-> s, PodName |-> p]
HealthCheckEvent(key) == [kind |-> EventHealthCheck, ServiceKey |-> key]
ReconcileEvent == [kind |-> EventReconcile]
NoEvent == [kind |-> "none"]

NoRun == [event |-> NoEvent, probe |-> "none", before |-> NewMemoryStore,
          calls |-> 0, sent |-> <<>>, at |-> ZeroTime]

\* no HealthChecker constructed yet
NoChecker == [pc |-> "new", maxRetries |-> 0, urlOk |-> TRUE, attempt |-> 0,
              gets |-> 0, failed |-> 0, backoff |-> {}, waited |-> {},
              result |-> FALSE]

\* no NotifySubscribers call made yet
NoCall == [pc |-> "idle", subscribers |-> <<>>, next |-> 1, tasks |-> <<>>]

\* the DualStore has no database: NewDualStore(nil)
NoDatabase == [pc |-> "new", present |-> FALSE, services |-> EmptyMap,
               subscriptions |-> {}, synced |-> FALSE, failed |-> {}]

\* a ManagerConfig whose fields have the zero value; times are in seconds
ZeroConfig ==
  [ServerPort |-> 0, HealthCheckInterval |-> 0, HealthCheckTimeout |-> 0,
   HealthCheckRetry |-> 0, NotificationInterval |-> 0, NotificationTimeout |-> 0,
   EventQueueSize |-> 0]

\* the nil *ManagerConfig
NilConfig == [nil |-> TRUE, value |-> ZeroConfig]

\* what NewManagerWithDatabase hands to the components it creates
Wire(c) ==
  [BufferSize |-> c.EventQueueSize,
   notifierTimeout |-> c.NotificationTimeout,
   healthCheckTimeout |-> c.HealthCheckTimeout,
   maxRetries |-> c.HealthCheckRetry,
   healthCheckInterval |-> c.HealthCheckInterval,
   reconcileInterval |-> c.NotificationInterval,
   Addr |-> c.ServerPort]

\* no constructor of the manager has been called with a configuration yet
NoManager == [pc |-> "new", given |-> NilConfig, effective |-> ZeroConfig,
              wired |-> Wire(ZeroConfig)]

\* no HTTP request has called Enqueue yet
NoProducers == [requests |-> 0, blocked |-> {}, admitted |-> {}, overloaded |-> {}]

Init ==
  /\ cache = NewMemoryStore
  /\ now = 1
  /\ handled = 0
  /\ last = NoRun
  /\ prev = NoRun
  /\ queue = <<>>
  /\ running = {}
  /\ accepted = <<>>
  /\ done = <<>>
  /\ burst = <<>>
  /\ manager = [pc |-> "new", startResult |-> "none", http |-> "off", alive |-> TRUE]
  /\ consumer = "idle"
  /\ healthScheduler = [pc |-> "idle", stopChan |-> "open", raced |-> FALSE, from |-> {}]
  /\ reconcileScheduler = [pc |-> "idle", stopChan |-> "open"]
  /\ checker = NoChecker
  /\ notifier = NoCall
  /\ db = NoDatabase
  /\ producers = NoProducers
  /\ config = NoManager

\* the worker has run the handler of event to completion with result out
Handled(event, probe, out) ==
  /\ cache' = out.store
  /\ handled' = handled + 1
  /\ last' = [event |-> event, probe |-> probe, before |-> cache,
              calls |-> out.calls, sent |-> out.sent, at |-> now]
  /\ prev' = last
  /\ now' = now + 1

\* the same in the specifications that leave the database aside
Complete(event, probe, out) ==
  /\ Handled(event, probe, out)
  /\ UNCHANGED outsideVars

DoRegister ==
  /\ handled < MaxEvents
  /\ \E reg \in ValidRegistrations :
       \E out \in handleRegister(cache, reg, now) :
         Complete(RegisterEvent(reg), "none", out)
  /\ UNCHANGED queueVars

DoUnregister ==
  /\ handled < MaxEvents
  /\ \E sp \in Pods :
       \E out \in handleUnregister(cache, sp[1], sp[2], now) :
         Complete(UnregisterEvent(sp[1], sp[2]), "none", out)
  /\ UNCHANGED queueVars

DoHealthCheck ==
  /\ handled < MaxEvents
  /\ \E key \in Keys, responses \in ProbeRuns :
       \E out \in handleHealthCheck(cache, key, responses, now) :
         Complete(HealthCheckEvent(key),
                  IF GetService(cache, key).err THEN "none" ELSE GetHealthStatus(responses),
                  out)
  /\ UNCHANGED queueVars

DoReconcile ==
  /\ handled < MaxEvents
  /\ \E out \in handleReconcile(cache, now) :
       Complete(ReconcileEvent, "none", out)
  /\ UNCHANGED queueVars

Next == DoRegister \/ DoUnregister \/ DoHealthCheck \/ DoReconcile

Spec == Init /\ [][Next]_vars

\* ------------------------------------------------------------ event pipeline
\* faulty variant: the queue is configured to run handlers concurrently
ProcessingModeParallel == "Parallel"

\* the ProcessingMode the manager configures the queue with
ProcessingMode == "Sequential"

\* faulty variant: the configured size is not the capacity of the buffer
QueueBufferSizeIgnored == BufferSize + 1

\* the BufferSize the manager configures the queue with: config.EventQueueSize
QueueBufferSize == BufferSize

\* requests and pods the producers of the pipeline use: a subscriber of group B
\* and a pod of group B
QueueRegistrations ==
  { r \in ValidRegistrations :
      \/ r.ServiceName = "A" /\ r.Subscriptions = <<"B">>
      \/ r.ServiceName = "B" /\ r.PodName = "p1" /\ r.Subscriptions = <<>> }
QueuePods == {<<"A", "p1">>, <<"B", "p1">>}

\* the process has not been ended by the runtime
Alive == manager.alive

\* Manager.Start: launches the queue consumer, both schedulers and the HTTP
\* server, each in a goroutine of its own, and returns nil
Start ==
  /\ manager.pc = "new"
  /\ manager' = [manager EXCEPT !.pc = "started", !.startResult = "nil", !.http = "starting"]
  /\ consumer' = "running"
  /\ healthScheduler' = [healthScheduler EXCEPT !.pc = "select"]
  /\ reconcileScheduler' = [reconcileScheduler EXCEPT !.pc = "select"]
  /\ UNCHANGED <<workerVars, queue, running, accepted, done, burst>>

\* the HTTP goroutine of Start: ListenAndServe binds the port or fails to; the
\* failure is logged inside the goroutine
HttpListen ==
  /\ Alive
  /\ manager.http = "starting"
  /\ \E bound \in BOOLEAN :
       manager' = [manager EXCEPT !.http = IF bound THEN "listening" ELSE "bindFailed"]
  /\ UNCHANGED <<workerVars, queue, running, accepted, done, burst,
                 consumer, healthScheduler, reconcileScheduler>>

\* the queue no longer accepts work: Stop was called on it
Refusing == consumer \in {"stopping", "stopped"}

\* Enqueue: the event is accepted when the buffer has room, else the producer
\* stays blocked
Enqueue(event) ==
  /\ Alive
  /\ ~Refusing
  /\ Len(queue) < QueueBufferSize
  /\ Len(accepted) < MaxAccepted
  /\ accepted' = Append(accepted, event)
  /\ queue' = Append(queue, [seq |-> Len(accepted) + 1, event |-> event])

\* POST /register
HttpRegister ==
  /\ manager.http = "listening"
  /\ \E reg \in QueueRegistrations : Enqueue(RegisterEvent(reg))
  /\ UNCHANGED <<workerVars, running, done, burst, lifeVars>>

\* POST /unregister
HttpUnregister ==
  /\ manager.http = "listening"
  /\ \E sp \in QueuePods : Enqueue(UnregisterEvent(sp[1], sp[2]))
  /\ UNCHANGED <<workerVars, running, done, burst, lifeVars>>

\* the health-check ticker fires and the select takes it: scheduleHealthChecks
\* calls registry.GetAllServices, which starts to iterate the services map
HealthCheckTick ==
  /\ Alive
  /\ healthScheduler.pc = "select"
  /\ Len(accepted) < MaxAccepted
  /\ healthScheduler' = [healthScheduler EXCEPT !.pc = "scan",
                                              !.from = DOMAIN cache.services]
  /\ UNCHANGED <<workerVars, queue, running, accepted, done, burst,
                 manager, consumer, reconcileScheduler>>

\* the key lists scheduleHealthChecks can draw from an undisturbed iteration
Snapshots(m) ==
  { [i \in DOMAIN services |-> GetKey(services[i])] : services \in GetAllServices(m) }

\* the key lists it can draw from an iteration during which a handler wrote the
\* map: any selection of the keys present at its start or at its end
RacedSnapshots(m, from) ==
  UNION { Orderings(ks) : ks \in SUBSET (from \cup DOMAIN m.services) }

\* GetAllServices returns to scheduleHealthChecks; an iteration that overlapped
\* a write of the map yields an arbitrary selection or ends the process
\* ("concurrent map iteration and map write")
HealthCheckSnapshot ==
  /\ Alive
  /\ healthScheduler.pc = "scan"
  /\ \/ /\ \E keys \in (IF healthScheduler.raced
                           THEN RacedSnapshots(cache, healthScheduler.from)
                           ELSE Snapshots(cache)) :
             /\ burst' = keys
             /\ healthScheduler' =
                  [healthScheduler EXCEPT !.pc = IF keys = <<>> THEN "select" ELSE "burst",
                                          !.raced = FALSE, !.from = {}]
        /\ UNCHANGED manager
     \/ /\ healthScheduler.raced
        /\ manager' = [manager EXCEPT !.alive = FALSE]
        /\ UNCHANGED <<burst, healthScheduler>>
  /\ UNCHANGED <<workerVars, queue, running, accepted, done, consumer, reconcileScheduler>>

\* the scheduler's position after the Enqueue call of the head of burst returned
AfterEnqueue == IF Tail(burst) = <<>> THEN "select" ELSE "burst"

\* scheduleHealthChecks calls Enqueue (no deadline) for the next service of its
\* snapshot: accepted, refused by a stopped queue, or blocked on a full buffer
HealthCheckEnqueue ==
  /\ Alive
  /\ healthScheduler.pc = "burst"
  /\ \/ /\ Enqueue(HealthCheckEvent(Head(burst)))
        /\ burst' = Tail(burst)
        /\ healthScheduler' = [healthScheduler EXCEPT !.pc = AfterEnqueue]
     \/ /\ Refusing
        /\ burst' = Tail(burst)
        /\ healthScheduler' = [healthScheduler EXCEPT !.pc = AfterEnqueue]
        /\ UNCHANGED <<queue, accepted>>
     \/ /\ ~Refusing
        /\ Len(queue) >= QueueBufferSize
        /\ healthScheduler' = [healthScheduler EXCEPT !.pc = "blocked"]
        /\ UNCHANGED <<queue, accepted, burst>>
  /\ UNCHANGED <<workerVars, running, done, manager, consumer, reconcileScheduler>>

\* the blocked Enqueue call of scheduleHealthChecks gets room in the buffer
HealthCheckUnblock ==
  /\ healthScheduler.pc = "blocked"
  /\ Enqueue(HealthCheckEvent(Head(burst)))
  /\ burst' = Tail(burst)
  /\ healthScheduler' = [healthScheduler EXCEPT !.pc = AfterEnqueue]
  /\ UNCHANGED <<workerVars, running, done, manager, consumer, reconcileScheduler>>

\* the reconcile ticker fires and the select takes it
ReconcileTick ==
  /\ Alive
  /\ reconcileScheduler.pc = "select"
  /\ Len(accepted) < MaxAccepted
  /\ reconcileScheduler' = [reconcileScheduler EXCEPT !.pc = "enqueue"]
  /\ UNCHANGED <<workerVars, queue, running, accepted, done, burst,
                 manager, consumer, healthScheduler>>

\* scheduleReconcile calls Enqueue (no deadline) for its one event
ReconcileEnqueue ==
  /\ Alive
  /\ reconcileScheduler.pc = "enqueue"
  /\ \/ /\ Enqueue(ReconcileEvent)
        /\ reconcileScheduler' = [reconcileScheduler EXCEPT !.pc = "select"]
     \/ /\ Refusing
        /\ reconcileScheduler' = [reconcileScheduler EXCEPT !.pc = "select"]
        /\ UNCHANGED <<queue, accepted>>
     \/ /\ ~Refusing
        /\ Len(queue) >= QueueBufferSize
        /\ reconcileScheduler' = [reconcileScheduler EXCEPT !.pc = "blocked"]
        /\ UNCHANGED <<queue, accepted>>
  /\ UNCHANGED <<workerVars, running, done, burst, manager, consumer, healthScheduler>>

\* the blocked Enqueue call of scheduleReconcile gets room in the buffer
ReconcileUnblock ==
  /\ reconcileScheduler.pc = "blocked"
  /\ Enqueue(ReconcileEvent)
  /\ reconcileScheduler' = [reconcileScheduler EXCEPT !.pc = "select"]
  /\ UNCHANGED <<workerVars, running, done, burst, manager, consumer, healthScheduler>>

\* the queue's consumer takes the oldest event and invokes its handler
Dequeue ==
  /\ Alive
  /\ consumer = "running"
  /\ queue # <<>>
  /\ ProcessingMode = "Sequential" => running = {}
  /\ Cardinality(running) < MaxWorkers
  /\ running' = running \cup
       { [seq |-> Head(queue).seq, event |-> Head(queue).event, pc |-> "handler",
          attempt |-> 0, serviceInfo |-> NoService, status |-> "none"] }
  /\ queue' = Tail(queue)
  /\ UNCHANGED <<workerVars, accepted, done, burst, lifeVars>>

\* the handler of event assigns to or deletes from the services map of m
WritesServicesMap(m, event) ==
  \/ event.kind = EventRegister
  \/ /\ event.kind = EventUnregister
     /\ (event.ServiceName \o ":" \o event.PodName) \in DOMAIN m.services

\* the handler invocation h returns; its map writes fell into the iteration of
\* a scheduler that was inside GetAllServices
Return(h, probe, out) ==
  /\ Alive
  /\ Complete(h.event, probe, out)
  /\ running' = running \ {h}
  /\ done' = Append(done, [seq |-> h.seq, probe |-> probe, at |-> now])
  /\ healthScheduler' =
       IF healthScheduler.pc = "scan" /\ WritesServicesMap(cache, h.event)
         THEN [healthScheduler EXCEPT !.raced = TRUE]
         ELSE healthScheduler
  /\ UNCHANGED <<queue, accepted, burst, manager, consumer, reconcileScheduler>>

RunRegister ==
  \E h \in running :
    /\ h.event.kind = EventRegister
    /\ \E out \in handleRegister(cache, h.event.reg, now) : Return(h, "none", out)

RunUnregister ==
  \E h \in running :
    /\ h.event.kind = EventUnregister
    /\ \E out \in handleUnregister(cache, h.event.ServiceName, h.event.PodName, now) :
         Return(h, "none", out)

RunReconcile ==
  \E h \in running :
    /\ h.event.kind = EventReconcile
    /\ \E out \in handleReconcile(cache, now) : Return(h, "none", out)

\* handleHealthCheck up to the probe: the service is looked up
HealthCheckLookup ==
  \E h \in running :
    /\ h.event.kind = EventHealthCheck
    /\ h.pc = "handler"
    /\ LET got == RegistryGet(cache, h.event.ServiceKey)
       IN IF got.err
            THEN Return(h, "none", Result(cache, 0, <<>>))
            ELSE /\ Alive
                 /\ running' = (running \ {h}) \cup
                      { [h EXCEPT !.pc = "probe", !.serviceInfo = got.service] }
                 /\ UNCHANGED <<workerVars, queue, accepted, done, burst, lifeVars>>

\* CheckHealth: one GET attempt and what the loop does with its outcome
HealthCheckProbe ==
  \E h \in running, outcome \in ProbeOutcomes :
    /\ Alive
    /\ h.pc = "probe"
    /\ running' = (running \ {h}) \cup
         { IF outcome = "2xx"
             THEN [h EXCEPT !.pc = "update", !.status = StatusHealthy]
           ELSE IF h.attempt + 1 > MaxRetries
             THEN [h EXCEPT !.pc = "update", !.status = StatusUnhealthy]
           ELSE [h EXCEPT !.pc = "sleep", !.attempt = h.attempt + 1] }
    /\ UNCHANGED <<workerVars, queue, accepted, done, burst, lifeVars>>

\* CheckHealth: the backoff sleep before a retry ends
HealthCheckBackoff ==
  \E h \in running :
    /\ Alive
    /\ h.pc = "sleep"
    /\ running' = (running \ {h}) \cup { [h EXCEPT !.pc = "probe"] }
    /\ UNCHANGED <<workerVars, queue, accepted, done, burst, lifeVars>>

\* handleHealthCheck after the probe: status update and fan-out
HealthCheckUpdate ==
  \E h \in running :
    /\ h.pc = "update"
    /\ \E out \in finishHealthCheck(cache, h.serviceInfo, h.event.ServiceKey, h.status, now) :
         Return(h, h.status, out)

QueueNext ==
  \/ Start \/ HttpListen
  \/ HttpRegister \/ HttpUnregister
  \/ HealthCheckTick \/ HealthCheckSnapshot \/ HealthCheckEnqueue \/ HealthCheckUnblock
  \/ ReconcileTick \/ ReconcileEnqueue \/ ReconcileUnblock
  \/ Dequeue
  \/ RunRegister \/ RunUnregister \/ RunReconcile
  \/ HealthCheckLookup \/ HealthCheckProbe \/ HealthCheckBackoff \/ HealthCheckUpdate

SpecQueue == Init /\ [][QueueNext]_vars

\* ----------------------------------------------------------------- shutdown
\* Manager.Stop, first statement: healthCheckScheduler.Stop() closes stopChan
StopHealthCheckScheduler ==
  /\ Alive
  /\ manager.pc = "started"
  /\ manager' = [manager EXCEPT !.pc = "stopReconcile"]
  /\ healthScheduler' = [healthScheduler EXCEPT !.stopChan = "closed"]
  /\ UNCHANGED <<workerVars, queue, running, accepted, done, burst,
                 consumer, reconcileScheduler>>

\* Manager.Stop: reconcileScheduler.Stop() closes stopChan
StopReconcileScheduler ==
  /\ Alive
  /\ manager.pc = "stopReconcile"
  /\ manager' = [manager EXCEPT !.pc = "shutdownHttp"]
  /\ reconcileScheduler' = [reconcileScheduler EXCEPT !.stopChan = "closed"]
  /\ UNCHANGED <<workerVars, queue, running, accepted, done, burst,
                 consumer, healthScheduler>>

\* Manager.Stop: httpServer.Shutdown closes the listener
HttpShutdown ==
  /\ Alive
  /\ manager.pc = "shutdownHttp"
  /\ manager' = [manager EXCEPT !.pc = "stopQueue",
                                !.http = IF @ = "bindFailed" THEN @ ELSE "closed"]
  /\ UNCHANGED <<workerVars, queue, running, accepted, done, burst,
                 consumer, healthScheduler, reconcileScheduler>>

\* Manager.Stop: eventQueue.Stop() is called; the queue stops accepting work
QueueStop ==
  /\ Alive
  /\ manager.pc = "stopQueue"
  /\ manager' = [manager EXCEPT !.pc = "awaitQueue"]
  /\ consumer' = "stopping"
  /\ UNCHANGED <<workerVars, queue, running, accepted, done, burst,
                 healthScheduler, reconcileScheduler>>

\* eventQueue.Stop() returns once the current handler has completed; Stop
\* cancels the queue context, closes the store and returns nil
StopReturn ==
  /\ Alive
  /\ manager.pc = "awaitQueue"
  /\ running = {}
  /\ manager' = [manager EXCEPT !.pc = "stopped"]
  /\ consumer' = "stopped"
  /\ UNCHANGED <<workerVars, queue, running, accepted, done, burst,
                 healthScheduler, reconcileScheduler>>

\* HealthCheckScheduler.Start: the select takes the closed stopChan and the
\* goroutine returns
HealthCheckExit ==
  /\ Alive
  /\ healthScheduler.pc = "select"
  /\ healthScheduler.stopChan = "closed"
  /\ healthScheduler' = [healthScheduler EXCEPT !.pc = "exited"]
  /\ UNCHANGED <<workerVars, queue, running, accepted, done, burst,
                 manager, consumer, reconcileScheduler>>

\* ReconcileScheduler.Start: the select takes the closed stopChan and the
\* goroutine returns
ReconcileExit ==
  /\ Alive
  /\ reconcileScheduler.pc = "select"
  /\ reconcileScheduler.stopChan = "closed"
  /\ reconcileScheduler' = [reconcileScheduler EXCEPT !.pc = "exited"]
  /\ UNCHANGED <<workerVars, queue, running, accepted, done, burst,
                 manager, consumer, healthScheduler>>

LifecycleNext ==
  \/ Start \/ HttpListen
  \/ HttpRegister \/ HttpUnregister
  \/ HealthCheckTick \/ HealthCheckSnapshot \/ HealthCheckEnqueue \/ HealthCheckUnblock
  \/ ReconcileTick \/ ReconcileEnqueue \/ ReconcileUnblock
  \/ Dequeue
  \/ RunRegister \/ RunUnregister \/ RunReconcile
  \/ HealthCheckLookup \/ HealthCheckProbe \/ HealthCheckBackoff \/ HealthCheckUpdate
  \/ StopHealthCheckScheduler \/ StopReconcileScheduler \/ HttpShutdown
  \/ QueueStop \/ StopReturn
  \/ HealthCheckExit \/ ReconcileExit

\* the daemon from construction through Start to the return of Stop
SpecLifecycle == Init /\ [][LifecycleNext]_vars

\* the steps of the queue's consumer goroutine and of the handler it runs
ConsumerStep ==
  \/ Dequeue
  \/ RunRegister \/ RunUnregister \/ RunReconcile
  \/ HealthCheckLookup \/ HealthCheckProbe \/ HealthCheckBackoff \/ HealthCheckUpdate

\* the steps of the scheduler goroutines inside scheduleHealthChecks and
\* scheduleReconcile
SchedulerStep ==
  \/ HealthCheckSnapshot \/ HealthCheckEnqueue \/ HealthCheckUnblock
  \/ ReconcileEnqueue \/ ReconcileUnblock

\* the statements of Manager.Stop after the first
StopStep == StopReconcileScheduler \/ HttpShutdown \/ QueueStop \/ StopReturn

\* the daemon while its clients only register: LifecycleNext without the
\* unregister request and its handler
ShutdownNext ==
  \/ Start \/ HttpListen
  \/ HttpRegister
  \/ HealthCheckTick \/ HealthCheckSnapshot \/ HealthCheckEnqueue \/ HealthCheckUnblock
  \/ ReconcileTick \/ ReconcileEnqueue \/ ReconcileUnblock
  \/ Dequeue
  \/ RunRegister \/ RunReconcile
  \/ HealthCheckLookup \/ HealthCheckProbe \/ HealthCheckBackoff \/ HealthCheckUpdate
  \/ StopHealthCheckScheduler \/ StopReconcileScheduler \/ HttpShutdown
  \/ QueueStop \/ StopReturn
  \/ HealthCheckExit \/ ReconcileExit

\* the Go scheduler runs every goroutine that can take a step, and a select
\* with a closed stopChan among its ready cases takes it sooner or later
SpecLifecycleFair ==
  /\ Init /\ [][ShutdownNext]_vars
  /\ WF_vars(ConsumerStep)
  /\ WF_vars(SchedulerStep)
  /\ WF_vars(StopStep)
  /\ SF_vars(HealthCheckExit)
  /\ SF_vars(ReconcileExit)

\* ------------------------------------------------------------- configuration
\* models.DefaultConfig()
DefaultConfig ==
  [ServerPort |-> 8080, HealthCheckInterval |-> 30, HealthCheckTimeout |-> 5,
   HealthCheckRetry |-> 3, NotificationInterval |-> 60, NotificationTimeout |-> 5,
   EventQueueSize |-> 1000]

\* the configurations a caller passes: nil, or a ManagerConfig of its own
ManagerConfigs ==
  [ServerPort : {8080, 9090}, HealthCheckInterval : {30, 10},
   HealthCheckTimeout : {5, 2}, HealthCheckRetry : {3, 0},
   NotificationInterval : {60, 15}, NotificationTimeout : {5, 1},
   EventQueueSize : {1000, 1}]
GivenConfigs == {NilConfig} \cup { [nil |-> FALSE, value |-> c] : c \in ManagerConfigs }

\* faulty variant: a nil config is replaced by an empty ManagerConfig
EffectiveConfigZero(given) == IF given.nil THEN ZeroConfig ELSE given.value

\* if config == nil { config = models.DefaultConfig() }
EffectiveConfig(given) == IF given.nil THEN DefaultConfig ELSE given.value

\* the manager NewManagerWithDatabase returns for the config it is given
BuildManager(given) ==
  [pc |-> "built", given |-> given, effective |-> EffectiveConfig(given),
   wired |-> Wire(EffectiveConfig(given))]

\* NewManager(config): NewManagerWithDatabase(config, nil)
NewManager ==
  /\ config.pc = "new"
  /\ \E given \in GivenConfigs : config' = BuildManager(given)
  /\ db' = [NoDatabase EXCEPT !.pc = "ready"]
  /\ UNCHANGED <<registryVars, checker, notifier, producers, queueVars>>

\* NewManagerWithDatabase(config, db) with a database
NewManagerWithDatabase ==
  /\ config.pc = "new"
  /\ \E given \in GivenConfigs : config' = BuildManager(given)
  /\ db' = [NoDatabase EXCEPT !.pc = "ready", !.present = TRUE]
  /\ UNCHANGED <<registryVars, checker, notifier, producers, queueVars>>

ConfigNext == NewManager \/ NewManagerWithDatabase

SpecConfig == Init /\ [][ConfigNext]_vars

\* ----------------------------------------------------------------- DualStore
\* the registrations the handlers over the DualStore are given: a subscriber
\* of group B, one whose list holds an empty group name, and a pod of group B
DualRegistrations ==
  { r \in ValidRegistrations :
      \/ r.ServiceName = "A" /\ r.Subscriptions \in {<<"B">>, <<"">>}
      \/ r.ServiceName = "B" /\ r.PodName = "p1" /\ r.Subscriptions = <<>> }

\* the two collections of the database; the writes to one can fail while the
\* handler of an event runs
DbCollections == {"services", "subscriptions"}

\* the collections whose writes can fail while a handler runs: any of them
\* with a database, none without
MirrorFailures(database) ==
  IF database.present THEN SUBSET DbCollections ELSE {{}}

\* faulty variant: the DualStore returns the error of the mirror write
MirrorErrorReturned(database, failing) ==
  database.present /\ "services" \in failing

\* the error a mutating DualStore operation returns when its mirror write to
\* the database failed: none, the failure is logged
MirrorError(database, failing) == FALSE

\* Registry.Register over a store whose SaveService, having written the cache,
\* returns saveErr
RegisterDual(m, reg, t, saveErr) ==
  LET serviceInfo == NewServiceInfo(reg, t)
      key == GetKey(serviceInfo)
      old == GetService(m, key)
      m1 == IF ~old.err THEN removeSubscriptions(m, key, old.service.Subscriptions) ELSE m
      saved == SaveService(m1, serviceInfo)
  IN IF saved.err \/ saveErr
       THEN [store |-> saved.store, service |-> serviceInfo]
       ELSE [store |-> addSubscriptions(saved.store, key, reg.Subscriptions),
             service |-> serviceInfo]

handleRegisterDual(m, reg, t, saveErr) ==
  LET r == RegisterDual(m, reg, t, saveErr)
      serviceName == r.service.ServiceName
  IN { Result(r.store, 1,
              NotifySubscribers(GetSubscriberServices(r.store, serviceName),
                BuildNotificationPayload(serviceName, EventTypeRegister, servicePods, t))) :
       servicePods \in GetServicesByName(r.store, serviceName) }

\* the (subscriberKey, serviceGroup) pairs of the subscription index of m
IndexPairs(m) ==
  { <<k, g>> : k \in Keys, g \in DOMAIN m.subscriptions } \cap
  { p \in Keys \X DOMAIN m.subscriptions : p[1] \in Range(m.subscriptions[p[2]]) }

\* the database after the mirror writes of a handler that took the cache from
\* before to after; the writes to the collections in failing were lost
Mirror(database, before, after, failing) ==
  IF ~database.present THEN [database EXCEPT !.synced = FALSE, !.failed = {}]
  ELSE
    LET written == { k \in DOMAIN after.services :
                       k \notin DOMAIN before.services
                       \/ after.services[k] # before.services[k] }
        deleted == DOMAIN before.services \ DOMAIN after.services
        keys == (DOMAIN database.services \ deleted) \cup written
        services == [k \in keys |->
                       IF k \in written THEN after.services[k] ELSE database.services[k]]
        subscriptions == (database.subscriptions \ (IndexPairs(before) \ IndexPairs(after)))
                           \cup (IndexPairs(after) \ IndexPairs(before))
    IN [database EXCEPT
          !.services = IF "services" \in failing THEN @ ELSE services,
          !.subscriptions = IF "subscriptions" \in failing THEN @ ELSE subscriptions,
          !.synced = FALSE,
          !.failed = failing]

\* the subscription indexes that list the pairs: the order of a group's
\* subscribers is that of the rows read
IndexesOf(pairs) ==
  LET groups == { p[2] : p \in pairs }
      subscribersOf(g) == { p[1] : p \in { q \in pairs : q[2] = g } }
  IN { f \in [groups -> UNION { Orderings(subscribersOf(g)) : g \in groups }] :
         \A g \in groups : f[g] \in Orderings(subscribersOf(g)) }

\* SyncFromDatabase: the services and the subscription map are read from the
\* database and replace the cache contents; a failed read leaves the cache
SyncFromDatabase(m, database, readFails) ==
  IF readFails THEN {m}
  ELSE { [services |-> database.services, subscriptions |-> index] :
           index \in IndexesOf(database.subscriptions) }

\* faulty variant: SyncFromDatabase is called without the nil check
DatabaseConfiguredUnchecked(database) == TRUE

\* w.dualStore.GetDatabase() != nil
DatabaseConfigured(database) == database.present

\* the probe runs of a pod that answers every attempt the same way
SteadyProbeRuns == { r \in ProbeRuns : \A i \in DOMAIN r : r[i] = r[1] }

\* NewManager(config) builds the DualStore without a database,
\* NewManagerWithDatabase(config, db) with one
NewDualStore ==
  /\ db.pc = "new"
  /\ \E present \in BOOLEAN :
       db' = [NoDatabase EXCEPT !.pc = "ready", !.present = present]
  /\ UNCHANGED <<registryVars, checker, notifier, producers, config, queueVars>>

DualRegister ==
  /\ db.pc = "ready"
  /\ handled < MaxEvents
  /\ \E reg \in DualRegistrations, failing \in MirrorFailures(db) :
       \E out \in handleRegisterDual(cache, reg, now, MirrorError(db, failing)) :
         /\ Handled(RegisterEvent(reg), "none", out)
         /\ db' = Mirror(db, cache, out.store, failing)
  /\ UNCHANGED <<checker, notifier, producers, config, queueVars>>

DualUnregister ==
  /\ db.pc = "ready"
  /\ handled < MaxEvents
  /\ \E sp \in QueuePods, failing \in MirrorFailures(db) :
       \E out \in handleUnregister(cache, sp[1], sp[2], now) :
         /\ Handled(UnregisterEvent(sp[1], sp[2]), "none", out)
         /\ db' = Mirror(db, cache, out.store, failing)
  /\ UNCHANGED <<checker, notifier, producers, config, queueVars>>

DualHealthCheck ==
  /\ db.pc = "ready"
  /\ handled < MaxEvents
  /\ \E key \in { sp[1] \o ":" \o sp[2] : sp \in QueuePods }, responses \in SteadyProbeRuns,
        failing \in MirrorFailures(db) :
       \E out \in handleHealthCheck(cache, key, responses, now) :
         /\ Handled(HealthCheckEvent(key),
                    IF GetService(cache, key).err THEN "none" ELSE GetHealthStatus(responses),
                    out)
         /\ db' = Mirror(db, cache, out.store, failing)
  /\ UNCHANGED <<checker, notifier, producers, config, queueVars>>

\* handleReconcile: SyncFromDatabase when a database is configured, then the
\* fan-out of every group from the cache
DualReconcile ==
  /\ db.pc = "ready"
  /\ handled < MaxEvents
  /\ \E readFails \in BOOLEAN :
       \E m \in (IF DatabaseConfigured(db)
                   THEN SyncFromDatabase(cache, db, readFails) ELSE {cache}) :
         \E out \in handleReconcile(m, now) :
           /\ Handled(ReconcileEvent, "none", out)
           /\ db' = [db EXCEPT !.synced = DatabaseConfigured(db),
                               !.failed = IF DatabaseConfigured(db) /\ readFails
                                            THEN DbCollections ELSE {}]
  /\ UNCHANGED <<checker, notifier, producers, config, queueVars>>

DualNext ==
  \/ NewDualStore
  \/ DualRegister \/ DualUnregister \/ DualHealthCheck \/ DualReconcile

SpecDualStore == Init /\ [][DualNext]_vars

\* -------------------------------------------------------------- backpressure
\* number of HTTP requests that call Enqueue
MaxRequests == 3

\* the next request number
NextRequest == producers.requests + 1

\* a /register request calls Enqueue with its deadline and the buffer has
\* room: the event is accepted at once
HttpEnqueue ==
  /\ manager.http = "listening"
  /\ producers.requests < MaxRequests
  /\ \E reg \in QueueRegistrations : Enqueue(RegisterEvent(reg))
  /\ producers' = [producers EXCEPT
       !.requests = NextRequest,
       !.admitted = @ \cup {[id |-> NextRequest, seq |-> Len(accepted) + 1]}]
  /\ UNCHANGED <<registryVars, checker, notifier, db, config,
                 running, done, burst, lifeVars>>

\* a /register request calls Enqueue with its deadline and the buffer is full:
\* the call blocks
HttpEnqueueBlocks ==
  /\ Alive
  /\ manager.http = "listening"
  /\ producers.requests < MaxRequests
  /\ ~Refusing
  /\ Len(queue) >= QueueBufferSize
  /\ \E reg \in QueueRegistrations :
       producers' = [producers EXCEPT
         !.requests = NextRequest,
         !.blocked = @ \cup {[id |-> NextRequest, event |-> RegisterEvent(reg)]}]
  /\ UNCHANGED <<registryVars, checker, notifier, db, config, queueVars>>

\* a blocked Enqueue call gets room in the buffer before its deadline
HttpEnqueueUnblocks ==
  /\ \E b \in producers.blocked :
       /\ Enqueue(b.event)
       /\ producers' = [producers EXCEPT
            !.blocked = @ \ {b},
            !.admitted = @ \cup {[id |-> b.id, seq |-> Len(accepted) + 1]}]
  /\ UNCHANGED <<registryVars, checker, notifier, db, config,
                 running, done, burst, lifeVars>>

\* the deadline of a blocked Enqueue call elapses: the call fails with
\* Overloaded and the request is answered 503
HttpEnqueueOverloaded ==
  /\ Alive
  /\ \E b \in producers.blocked :
       producers' = [producers EXCEPT !.blocked = @ \ {b},
                                      !.overloaded = @ \cup {b.id}]
  /\ UNCHANGED <<registryVars, checker, notifier, db, config, queueVars>>

BackpressureNext ==
  \/ Start \/ HttpListen
  \/ HttpEnqueue \/ HttpEnqueueBlocks \/ HttpEnqueueUnblocks \/ HttpEnqueueOverloaded
  \/ ReconcileTick \/ ReconcileEnqueue \/ ReconcileUnblock
  \/ Dequeue \/ RunRegister \/ RunReconcile

SpecBackpressure == Init /\ [][BackpressureNext]_vars

\* ---------------------------------------------------- CheckHealth in steps
\* largest maxRetries a HealthChecker is constructed with
MaxRetrySetting == 36

\* width of a time.Duration, an int64 count of nanoseconds
DurationBits == 64

\* a time.Duration is held as the set of the positions of the 1 bits of its
\* two's complement representation; time.Second is 10^9 nanoseconds
Second == {9, 11, 14, 15, 17, 19, 20, 23, 24, 25, 27, 28, 29}

\* time.Duration(1 << uint(n)): a shift by 64 or more leaves 0
ShiftLeftOne(n) == IF n < DurationBits THEN {n} ELSE {}

\* p * d for p a power of two or 0, the product wrapped to the int64 width
TimesPowerOfTwo(p, d) ==
  { i + j : i \in p, j \in d } \cap (0..(DurationBits - 1))

\* backoff := time.Duration(1<<uint(attempt-1)) * time.Second
Backoff(attempt) == TimesPowerOfTwo(ShiftLeftOne(attempt - 1), Second)

Negative(d) == (DurationBits - 1) \in d

\* time.Sleep(d): the time the caller is paused for; a negative or zero d
\* returns immediately
Sleep(d) == IF Negative(d) THEN {} ELSE d

\* faulty variant: the loop runs while attempt < maxRetries
ExhaustedOffByOne(attempt, maxRetries) == attempt >= maxRetries

\* the loop condition attempt <= hc.maxRetries no longer holds
Exhausted(attempt, maxRetries) == attempt > maxRetries

\* NewHealthChecker(timeout, maxRetries)
NewHealthChecker ==
  /\ checker.pc = "new"
  /\ \E maxRetries \in 0..MaxRetrySetting :
       checker' = [NoChecker EXCEPT !.pc = "idle", !.maxRetries = maxRetries]
  /\ UNCHANGED <<registryVars, notifier, db, producers, config, queueVars>>

\* CheckHealth(healthCheckURL) is called; the URL can be turned into a request
\* or not
CheckHealthCall ==
  /\ checker.pc = "idle"
  /\ \E urlOk \in BOOLEAN :
       checker' = [checker EXCEPT !.pc = "loop", !.urlOk = urlOk]
  /\ UNCHANGED <<registryVars, notifier, db, producers, config, queueVars>>

\* the head of the loop: leave it when the attempts are used up, compute the
\* backoff and sleep before a retry, go on at once before the first attempt
CheckHealthLoop ==
  /\ checker.pc = "loop"
  /\ checker' =
       IF Exhausted(checker.attempt, checker.maxRetries)
         THEN [checker EXCEPT !.pc = "returned", !.result = FALSE]
       ELSE IF checker.attempt > 0
         THEN [checker EXCEPT !.pc = "sleep",
                              !.backoff = Backoff(checker.attempt),
                              !.waited = Sleep(Backoff(checker.attempt))]
       ELSE [checker EXCEPT !.pc = "request"]
  /\ UNCHANGED <<registryVars, notifier, db, producers, config, queueVars>>

\* time.Sleep(backoff) returns
CheckHealthWake ==
  /\ checker.pc = "sleep"
  /\ checker' = [checker EXCEPT !.pc = "request"]
  /\ UNCHANGED <<registryVars, notifier, db, producers, config, queueVars>>

\* one attempt: the request is built and sent; a request that cannot be built,
\* a transport error or timeout and a status outside 2xx go on with the next
\* attempt, a 2xx status returns true
CheckHealthAttempt ==
  /\ checker.pc = "request"
  /\ \E outcome \in ProbeOutcomes :
       checker' =
         IF ~checker.urlOk
           THEN [checker EXCEPT !.pc = "loop", !.attempt = @ + 1, !.failed = @ + 1]
         ELSE IF outcome = "2xx"
           THEN [checker EXCEPT !.pc = "returned", !.gets = @ + 1, !.result = TRUE]
         ELSE [checker EXCEPT !.pc = "loop", !.gets = @ + 1,
                              !.attempt = @ + 1, !.failed = @ + 1]
  /\ UNCHANGED <<registryVars, notifier, db, producers, config, queueVars>>

CheckHealthNext ==
  \/ NewHealthChecker \/ CheckHealthCall \/ CheckHealthLoop
  \/ CheckHealthWake \/ CheckHealthAttempt

SpecCheckHealth == Init /\ [][CheckHealthNext]_vars

\* ---------------------------------------------- NotifySubscribers in steps
\* longest subscriber list of a NotifySubscribers call
MaxSubscribers == 3

\* the subscriber lists of a call; of each subscriber it matters whether a
\* request can be built from its notificationURL
SubscriberLists == UNION { [1..n -> BOOLEAN] : n \in 0..MaxSubscribers }

\* a sendNotification goroutine that has not run yet
NewTask == [pc |-> "spawned", posts |-> 0, outcome |-> "none"]

\* sendNotification up to httpClient.Do: a request that cannot be built ends
\* the task, else the one POST is sent
sendNotification(task, urlOk) ==
  IF urlOk THEN [task EXCEPT !.pc = "posting", !.posts = @ + 1]
  ELSE [task EXCEPT !.pc = "done", !.outcome = "noRequest"]

\* faulty variant: a POST that failed is sent once more
AfterResponseRetrying(task, outcome) ==
  IF outcome # "2xx" /\ task.posts < 2
    THEN [task EXCEPT !.pc = "spawned", !.outcome = outcome]
    ELSE [task EXCEPT !.pc = "done", !.outcome = outcome]

\* sendNotification after httpClient.Do: whatever came back is logged and the
\* task ends
AfterResponse(task, outcome) == [task EXCEPT !.pc = "done", !.outcome = outcome]

\* NotifySubscribers(subscribers, payload) is called by a handler
NotifySubscribersCall ==
  /\ notifier.pc = "idle"
  /\ \E subscribers \in SubscriberLists :
       notifier' = [notifier EXCEPT !.pc = "spawning", !.subscribers = subscribers]
  /\ UNCHANGED <<registryVars, checker, db, producers, config, queueVars>>

\* one iteration of the loop: go n.sendNotification(...)
NotifySpawn ==
  /\ notifier.pc = "spawning"
  /\ notifier.next <= Len(notifier.subscribers)
  /\ notifier' = [notifier EXCEPT !.next = @ + 1, !.tasks = Append(@, NewTask)]
  /\ UNCHANGED <<registryVars, checker, db, producers, config, queueVars>>

\* the loop is over and NotifySubscribers returns to the handler
NotifyReturn ==
  /\ notifier.pc = "spawning"
  /\ notifier.next > Len(notifier.subscribers)
  /\ notifier' = [notifier EXCEPT !.pc = "returned"]
  /\ UNCHANGED <<registryVars, checker, db, producers, config, queueVars>>

\* a sendNotification goroutine runs up to its POST
SendNotificationPost ==
  /\ \E i \in DOMAIN notifier.tasks :
       /\ notifier.tasks[i].pc = "spawned"
       /\ notifier' = [notifier EXCEPT
            !.tasks[i] = sendNotification(@, notifier.subscribers[i])]
  /\ UNCHANGED <<registryVars, checker, db, producers, config, queueVars>>

\* the POST of a sendNotification goroutine comes back: 2xx, another status, or
\* a transport error / timeout
SendNotificationResponse ==
  /\ \E i \in DOMAIN notifier.tasks, outcome \in ProbeOutcomes :
       /\ notifier.tasks[i].pc = "posting"
       /\ notifier' = [notifier EXCEPT !.tasks[i] = AfterResponse(@, outcome)]
  /\ UNCHANGED <<registryVars, checker, db, producers, config, queueVars>>

NotifyNext ==
  \/ NotifySubscribersCall \/ NotifySpawn \/ NotifyReturn
  \/ SendNotificationPost \/ SendNotificationResponse

SpecNotify == Init /\ [][NotifyNext]_vars

\* ------------------------------------------ Register over a failing store
\* SaveService of a RegistryStore that can fail: it returns its error before
\* it has stored anything, as the error returns of MemoryStore.SaveService do
FallibleSaveService(m, service, fails) ==
  IF fails THEN [store |-> m, err |-> TRUE] ELSE SaveService(m, service)

\* faulty variant: the new subscriptions are added although SaveService failed
RegisterIgnoringSaveError(m, reg, t, fails) ==
  LET serviceInfo == NewServiceInfo(reg, t)
      key == GetKey(serviceInfo)
      old == GetService(m, key)
      m1 == IF ~old.err THEN removeSubscriptions(m, key, old.service.Subscriptions) ELSE m
      saved == FallibleSaveService(m1, serviceInfo, fails)
  IN [store |-> addSubscriptions(saved.store, key, reg.Subscriptions),
      service |-> serviceInfo]

\* Registry.Register over such a store
RegisterFallible(m, reg, t, fails) ==
  LET serviceInfo == NewServiceInfo(reg, t)
      key == GetKey(serviceInfo)
      old == GetService(m, key)
      m1 == IF ~old.err THEN removeSubscriptions(m, key, old.service.Subscriptions) ELSE m
      saved == FallibleSaveService(m1, serviceInfo, fails)
  IN IF saved.err
       THEN [store |-> saved.store, service |-> serviceInfo]
       ELSE [store |-> addSubscriptions(saved.store, key, reg.Subscriptions),
             service |-> serviceInfo]

\* handleRegister over such a store; it does not look at what Register did
handleRegisterFallible(m, reg, t, fails) ==
  LET r == RegisterFallible(m, reg, t, fails)
      serviceName == r.service.ServiceName
  IN { Result(r.store, 1,
              NotifySubscribers(GetSubscriberServices(r.store, serviceName),
                BuildNotificationPayload(serviceName, EventTypeRegister, servicePods, t))) :
       servicePods \in GetServicesByName(r.store, serviceName) }

\* a register event is handled; the store's SaveService fails or not
FallibleRegister ==
  /\ handled < MaxEvents
  /\ \E reg \in ValidRegistrations, fails \in BOOLEAN :
       \E out \in handleRegisterFallible(cache, reg, now, fails) :
         Complete(RegisterEvent(reg), IF fails THEN "saveError" ELSE "none", out)
  /\ UNCHANGED queueVars

FallibleNext == FallibleRegister \/ DoUnregister \/ DoReconcile

\* the handlers over a store whose SaveService can fail
SpecFallibleStore == Init /\ [][FallibleNext]_vars

\* ------------------------------------------------- names with a separator
\* (serviceName, podName) pairs as the register request accepts them: both
\* non-empty, the ':' of the key allowed inside either
ColonPairs == {<<"A", "p">>, <<"A", "p:1">>, <<"A:p", "1">>, <<"B", "p">>}

ColonRegistrations ==
  { [ServiceName |-> sp[1], PodName |-> sp[2],
     Providers |-> <<[protocol |-> "http", ip |-> sp[1] \o "." \o sp[2], port |-> 8080]>>,
     HealthCheckURL |-> "http://" \o sp[1] \o "." \o sp[2] \o "/h",
     NotificationURL |-> "http://" \o sp[1] \o "." \o sp[2] \o "/n",
     Subscriptions |-> subs] :
    sp \in ColonPairs, subs \in {<<>>, <<"A">>} }

ColonRegister ==
  /\ handled < MaxEvents
  /\ \E reg \in ColonRegistrations :
       \E out \in handleRegister(cache, reg, now) :
         Complete(RegisterEvent(reg), "none", out)
  /\ UNCHANGED queueVars

ColonUnregister ==
  /\ handled < MaxEvents
  /\ \E sp \in ColonPairs :
       \E out \in handleUnregister(cache, sp[1], sp[2], now) :
         Complete(UnregisterEvent(sp[1], sp[2]), "none", out)
  /\ UNCHANGED queueVars

ColonNext == ColonRegister \/ ColonUnregister

\* the register and unregister handlers fed with such names
SpecColonNames == Init /\ [][ColonNext]_vars

\* ------------------------------------------ the subscription map by itself
\* the arguments the subscription operations of the store are called with
SubscriberKeys == Keys \cup {""}
ServiceGroups == ServiceNames \cup {""}

\* a call of a subscription operation of the store
StoreCall(kind, subscriberKey, serviceGroup) ==
  [kind |-> kind, subscriberKey |-> subscriberKey, serviceGroup |-> serviceGroup]

\* the call returned, leaving the store m
StoreReturn(call, m) ==
  /\ cache' = m
  /\ last' = [NoRun EXCEPT !.event = call, !.before = cache]

StoreAddSubscription ==
  /\ \E subscriberKey \in SubscriberKeys, serviceGroup \in ServiceGroups :
       StoreReturn(StoreCall("AddSubscription", subscriberKey, serviceGroup),
                   AddSubscription(cache, subscriberKey, serviceGroup).store)
  /\ UNCHANGED <<now, handled, prev, outsideVars, queueVars>>

StoreRemoveSubscription ==
  /\ \E subscriberKey \in SubscriberKeys, serviceGroup \in ServiceGroups :
       StoreReturn(StoreCall("RemoveSubscription", subscriberKey, serviceGroup),
                   RemoveSubscription(cache, subscriberKey, serviceGroup))
  /\ UNCHANGED <<now, handled, prev, outsideVars, queueVars>>

StoreRemoveAllSubscriptions ==
  /\ \E subscriberKey \in SubscriberKeys :
       \E m \in RemoveAllSubscriptions(cache, subscriberKey) :
         StoreReturn(StoreCall("RemoveAllSubscriptions", subscriberKey, ""), m)
  /\ UNCHANGED <<now, handled, prev, outsideVars, queueVars>>

SubscriptionNext ==
  StoreAddSubscription \/ StoreRemoveSubscription \/ StoreRemoveAllSubscriptions

\* the subscription operations of a MemoryStore called in any order
SpecSubscriptions == Init /\ [][SubscriptionNext]_vars

\* ------------------------------------------- notifications across handlers
\* the sendNotification goroutines a handler starts, in the order of its `go`
\* statements; seq is the position of the handler's event among the accepted
\* ones, rank the position of the POST among those the subscribers received
TasksOf(seq, sent) ==
  [i \in DOMAIN sent |->
     [pc |-> NewTask.pc, posts |-> NewTask.posts, outcome |-> NewTask.outcome,
      seq |-> seq, to |-> sent[i].to, group |-> sent[i].payload.ServiceName,
      eventType |-> sent[i].payload.EventType, rank |-> 0]]

\* number of POSTs the subscribers have received so far
Received == Cardinality({ i \in DOMAIN notifier.tasks : notifier.tasks[i].rank > 0 })

\* the handler invocation h returns; the goroutines of its NotifySubscribers
\* calls were started while it ran
DispatchReturn(h, out) ==
  /\ Alive
  /\ Handled(h.event, "none", out)
  /\ running' = running \ {h}
  /\ done' = Append(done, [seq |-> h.seq, probe |-> "none", at |-> now])
  /\ notifier' = [notifier EXCEPT !.tasks = @ \o TasksOf(h.seq, out.sent)]
  /\ UNCHANGED <<queue, accepted, burst, lifeVars, checker, db, producers, config>>

DispatchRegister ==
  \E h \in running :
    /\ h.event.kind = EventRegister
    /\ \E out \in handleRegister(cache, h.event.reg, now) : DispatchReturn(h, out)

DispatchUnregister ==
  \E h \in running :
    /\ h.event.kind = EventUnregister
    /\ \E out \in handleUnregister(cache, h.event.ServiceName, h.event.PodName, now) :
         DispatchReturn(h, out)

\* a sendNotification goroutine is scheduled and runs up to its POST
DispatchPost ==
  /\ \E i \in DOMAIN notifier.tasks :
       /\ notifier.tasks[i].pc = "spawned"
       /\ notifier' = [notifier EXCEPT !.tasks[i] = sendNotification(@, TRUE)]
  /\ UNCHANGED <<registryVars, checker, db, producers, config, queueVars>>

\* the POST of a goroutine reaches its subscriber and is answered, or fails on
\* the way (transport error, deadline)
DispatchResponse ==
  /\ \E i \in DOMAIN notifier.tasks, outcome \in ProbeOutcomes :
       /\ notifier.tasks[i].pc = "posting"
       /\ notifier' = [notifier EXCEPT
            !.tasks[i] = [AfterResponse(@, outcome) EXCEPT
                            !.rank = IF outcome = "error" THEN 0 ELSE Received + 1]]
  /\ UNCHANGED <<registryVars, checker, db, producers, config, queueVars>>

DispatchNext ==
  \/ Start \/ HttpListen
  \/ HttpRegister \/ HttpUnregister
  \/ Dequeue
  \/ DispatchRegister \/ DispatchUnregister
  \/ DispatchPost \/ DispatchResponse

\* the pipeline fed by HTTP requests, with the notification goroutines its
\* handlers start
SpecDispatch == Init /\ [][DispatchNext]_vars

\* ------------------------------------------------------------------ claims
\* the groups under which key is listed in the subscription index of m
IndexedGroups(m, key) ==
  { g \in DOMAIN m.subscriptions : key \in Range(m.subscriptions[g]) }

LastKey ==
  IF last.event.kind = EventRegister THEN GetKey(last.event.reg)
  ELSE IF last.event.kind = EventUnregister
    THEN last.event.ServiceName \o ":" \o last.event.PodName
  ELSE IF last.event.kind = EventHealthCheck THEN last.event.ServiceKey
  ELSE ""

PrevKey ==
  IF prev.event.kind = EventRegister THEN GetKey(prev.event.reg)
  ELSE IF prev.event.kind = EventUnregister
    THEN prev.event.ServiceName \o ":" \o prev.event.PodName
  ELSE IF prev.event.kind = EventHealthCheck THEN prev.event.ServiceKey
  ELSE ""

\* C1: every (subscriberKey, group) pair of the subscription index refers to a
\* ServiceInfo stored under subscriberKey whose subscriptions contain group.
C1_IndexEntriesHaveOwners ==
  \A g \in DOMAIN cache.subscriptions :
    \A i \in DOMAIN cache.subscriptions[g] :
      LET k == cache.subscriptions[g][i]
      IN /\ k \in DOMAIN cache.services
         /\ g \in Range(cache.services[k].Subscriptions)

\* a subscriber was re-registered with another list, then a subscribing pod was
\* unregistered, and the index still holds entries
C1_Witness ==
  /\ prev.event.kind = EventRegister
  /\ PrevKey \in DOMAIN prev.before.services
  /\ prev.before.services[PrevKey].Subscriptions # prev.event.reg.Subscriptions
  /\ last.event.kind = EventUnregister
  /\ LastKey \in DOMAIN last.before.services
  /\ IndexedGroups(last.before, LastKey) # {}
  /\ cache.subscriptions # EmptyMap

\* C2: for every stored ServiceInfo s and every group g of s.subscriptions the
\* index for g contains the key of s.
C2_EverySubscriptionIndexed ==
  \A k \in DOMAIN cache.services :
    \A g \in Range(cache.services[k].Subscriptions) :
      k \in Range(GetSubscribers(cache, g))

\* C3: after a key is re-registered with a different subscriptions list the
\* index lists the key under exactly the groups of the new list.
C3_ReRegisterIndexExactlyNewList ==
  ( /\ last.event.kind = EventRegister
    /\ LastKey \in DOMAIN last.before.services
    /\ last.before.services[LastKey].Subscriptions # last.event.reg.Subscriptions )
  => IndexedGroups(cache, LastKey) = Range(last.event.reg.Subscriptions)

\* an unregister of the key registered by the event before it
RegisterThenUnregister ==
  /\ prev.event.kind = EventRegister
  /\ last.event.kind = EventUnregister
  /\ last.event.ServiceName = prev.event.reg.ServiceName
  /\ last.event.PodName = prev.event.reg.PodName

\* C4 (as stated): Register(r) followed by Unregister(r.serviceName, r.podName)
\* restores the stored services and the subscription index, from every state.
C4_RoundTripFromAnyState ==
  RegisterThenUnregister => cache = prev.before

\* C4 (amended): Register(r) followed by Unregister(r.serviceName, r.podName)
\* restores the stored services and the subscription index whenever the key of r
\* was not registered before the Register.
C4_RoundTripOfNewKey ==
  (RegisterThenUnregister /\ PrevKey \notin DOMAIN prev.before.services)
  => cache = prev.before

\* a new key carrying subscriptions was registered into a non-empty registry
\* and unregistered again
C4_Witness ==
  /\ RegisterThenUnregister
  /\ PrevKey \notin DOMAIN prev.before.services
  /\ prev.before.services # EmptyMap
  /\ prev.before.subscriptions # EmptyMap
  /\ IndexedGroups(last.before, PrevKey) # {}

\* C5: UpdateHealthStatus on an existing key returns true iff the stored status
\* differs from the new one, and always stores the new status and the call's
\* timestamp (changing nothing else); on an absent key it returns false and
\* changes nothing.
C5_UpdateHealthStatusContract ==
  /\ \A key \in Keys, status \in Statuses :
       LET u == UpdateHealthStatus(cache, key, status, now)
       IN IF key \in DOMAIN cache.services
            THEN /\ u.changed = (cache.services[key].Status # status)
                 /\ u.store = [cache EXCEPT !.services[key].Status = status,
                                            !.services[key].LastHealthCheck = now]
            ELSE /\ u.changed = FALSE
                 /\ u.store = cache
  /\ (last.event.kind = EventHealthCheck /\ LastKey \in DOMAIN last.before.services)
     => /\ cache.services[LastKey].Status = last.probe
        /\ cache.services[LastKey].LastHealthCheck = last.at
        /\ (last.calls = 1) = (last.before.services[LastKey].Status # last.probe)

\* a health check that found the status it already had stored only moved the
\* timestamp, while another pod of the registry is absent
C5_Witness ==
  /\ last.event.kind = EventHealthCheck
  /\ LastKey \in DOMAIN last.before.services
  /\ last.before.services[LastKey].Status = last.probe
  /\ last.before.services[LastKey].LastHealthCheck # cache.services[LastKey].LastHealthCheck
  /\ \E key \in Keys : key \notin DOMAIN cache.services

\* the sends of a handler reduced to receiver, group and event type
Receipts(sent) ==
  { [to |-> sent[i].to, ServiceName |-> sent[i].payload.ServiceName,
     EventType |-> sent[i].payload.EventType] : i \in DOMAIN sent }

\* C6: a healthcheck event for a registered pod fans out one `update`
\* notification to every subscriber of the pod's group iff the probe result
\* differs from the stored status; two consecutive healthchecks of the same pod
\* with the same result fire at most one `update` fan-out.
C6_UpdateOnlyOnStatusChange ==
  /\ (last.event.kind = EventHealthCheck /\ LastKey \in DOMAIN last.before.services)
     => LET old == last.before.services[LastKey]
            subscribers == GetSubscriberServices(cache, old.ServiceName)
        IN IF old.Status # last.probe
             THEN /\ last.calls = 1
                  /\ Len(last.sent) = Len(subscribers)
                  /\ \A i \in DOMAIN last.sent :
                       /\ last.sent[i].to = GetKey(subscribers[i])
                       /\ last.sent[i].payload.EventType = EventTypeUpdate
                       /\ last.sent[i].payload.ServiceName = old.ServiceName
             ELSE last.calls = 0 /\ last.sent = <<>>
  /\ ( /\ last.event.kind = EventHealthCheck
       /\ prev.event = last.event
       /\ LastKey \in DOMAIN prev.before.services
       /\ prev.probe = last.probe )
     => /\ prev.calls + last.calls <= 1
        /\ last.sent = <<>>

\* the first of two equal probe results reached a subscriber as an `update`,
\* the second sent nothing
C6_Witness ==
  /\ last.event.kind = EventHealthCheck
  /\ prev.event = last.event
  /\ prev.probe = last.probe
  /\ Len(prev.sent) > 0
  /\ prev.sent[1].payload.EventType = EventTypeUpdate
  /\ last.sent = <<>>

\* the sends of a handler without their timestamps, pod lists as sent
PayloadsAsSent(sent) ==
  { [to |-> sent[i].to, ServiceName |-> sent[i].payload.ServiceName,
     EventType |-> sent[i].payload.EventType, Pods |-> sent[i].payload.Pods] :
    i \in DOMAIN sent }

\* the sends of a handler without their timestamps, pod lists as sets of pods
PayloadsUpToPodOrder(sent) ==
  { [to |-> sent[i].to, ServiceName |-> sent[i].payload.ServiceName,
     EventType |-> sent[i].payload.EventType, Pods |-> Range(sent[i].payload.Pods)] :
    i \in DOMAIN sent }

TwoReconciles == last.event.kind = EventReconcile /\ prev.event.kind = EventReconcile

C8_UnregisterUnknownIsNoOp ==
  (last.event.kind = EventUnregister /\ LastKey \notin DOMAIN last.before.services)
  => /\ cache = last.before
     /\ last.calls = 0
     /\ last.sent = <<>>

\* an absent pod was unregistered while its group had another pod and a
\* registered subscriber
C8_Witness ==
  /\ last.event.kind = EventUnregister
  /\ LastKey \notin DOMAIN last.before.services
  /\ ServicesByName(cache, last.event.ServiceName) # {}
  /\ GetSubscriberServices(cache, last.event.ServiceName) # <<>>

\* C9: at most one event handler executes at any time, whatever the producers
\* do and also while a health probe sleeps between retries.
C9_AtMostOneHandler == Cardinality(running) <= 1

\* a health-check handler sleeps between retries while the buffer is full and
\* the health-check scheduler is in the middle of a burst
C9_Witness ==
  /\ \E h \in running : h.pc = "sleep"
  /\ Len(queue) = BufferSize
  /\ burst # <<>>

\* the effect of one handled event on the registry
ApplyEvent(m, event, probe, t) ==
  IF event.kind = EventRegister THEN Register(m, event.reg, t).store
  ELSE IF event.kind = EventUnregister
    THEN Unregister(m, event.ServiceName, event.PodName).store
  ELSE IF event.kind = EventHealthCheck /\ probe # "none"
    THEN UpdateHealthStatus(m, event.ServiceKey, probe, t).store
  ELSE m

\* the registry after the first n accepted events were applied one after
\* another to the initial registry
RECURSIVE Replay(_)
Replay(n) ==
  IF n = 0 THEN NewMemoryStore
  ELSE ApplyEvent(Replay(n - 1), accepted[n], done[n].probe, done[n].at)

\* C10: events are applied in acceptance order: handlers complete in the order
\* their events were accepted, the handler of the n-th accepted event runs on
\* the registry that results from applying the first n-1 accepted events in
\* turn to the initial registry, and the buffer holds the rest in order.
C10_AppliedInAcceptanceOrder ==
  /\ \A i \in DOMAIN done : done[i].seq = i
  /\ \A h \in running :
       /\ h.seq = Len(done) + 1
       /\ h.event = accepted[h.seq]
       /\ cache = Replay(h.seq - 1)
  /\ cache = Replay(Len(done))
  /\ \A i \in DOMAIN queue :
       /\ queue[i].seq = Len(done) + Cardinality(running) + i
       /\ queue[i].event = accepted[queue[i].seq]

\* the handler of the third event runs on a registry changed by the first two,
\* a health check of a registered pod among them, with another event waiting
C10_Witness ==
  /\ \E h \in running : h.seq = 3
  /\ queue # <<>>
  /\ \E i \in DOMAIN done : done[i].probe # "none"
  /\ cache # NewMemoryStore

\* C11: scheduler goroutines never touch the registry: no handler writes the
\* services map of the store while a scheduler goroutine is inside a read of it.
C11_NoSchedulerAccessDuringWrite == ~healthScheduler.raced

\* C12: once Stop has signalled both schedulers (both stop channels are closed)
\* the queue accepts no further healthcheck or reconcile event.
C12_NoSchedulerEventAfterStop ==
  [][ ( /\ healthScheduler.stopChan = "closed"
        /\ reconcileScheduler.stopChan = "closed"
        /\ Len(accepted') > Len(accepted) )
      => accepted'[Len(accepted')].kind \notin {EventHealthCheck, EventReconcile} ]_vars

\* the behaviour has left the part of it the model follows: the bound on
\* accepted events is reached or the runtime ended the process
BeyondHorizon == Len(accepted) = MaxAccepted \/ ~Alive

\* C13: after Stop() was called on a scheduler (its stopChan is closed) its
\* goroutine eventually exits.
C13_SchedulerExitsAfterStop ==
  /\ (healthScheduler.stopChan = "closed")
       ~> (healthScheduler.pc = "exited" \/ BeyondHorizon)
  /\ (reconcileScheduler.stopChan = "closed")
       ~> (reconcileScheduler.pc = "exited" \/ BeyondHorizon)

\* C14: when the HTTP server could not bind its port, Start has returned an
\* error.
C14_BindFailureReturnedByStart ==
  manager.http = "bindFailed" => manager.startResult = "error"

\* the keys of the stored services whose subscriptions list the group
RegisteredSubscribers(m, group) ==
  { k \in DOMAIN m.services : group \in Range(m.services[k].Subscriptions) }

\* the entry a payload's pod list holds for a stored service
PodEntry(sv) == [PodName |-> sv.PodName, Status |-> sv.Status, Providers |-> sv.Providers]

\* the pod entries of the pods stored under the group
PodsOf(m, group) == { PodEntry(sv) : sv \in ServicesByName(m, group) }

\* sent holds exactly one send to each of the subscribers and no other send;
\* each goes to the subscriber's notification URL in store m and carries the
\* group, the event type and exactly the pods
FanOut(sent, m, subscribers, group, eventType, pods) ==
  /\ Len(sent) = Cardinality(subscribers)
  /\ { sent[i].to : i \in DOMAIN sent } = subscribers
  /\ \A i \in DOMAIN sent :
       /\ sent[i].url = m.services[sent[i].to].NotificationURL
       /\ sent[i].payload.ServiceName = group
       /\ sent[i].payload.EventType = eventType
       /\ Range(sent[i].payload.Pods) = pods
       /\ Len(sent[i].payload.Pods) = Cardinality(pods)

\* C15: a register event for pod P of group G sends exactly one `register`
\* notification to each registered subscriber of G, whose pod list is exactly
\* the set of pods registered under G after the registration, P among them.
C15_RegisterFanOut ==
  last.event.kind = EventRegister =>
    LET G == last.event.reg.ServiceName
    IN /\ last.calls = 1
       /\ FanOut(last.sent, cache, RegisteredSubscribers(cache, G), G,
                 EventTypeRegister, PodsOf(cache, G))
       /\ \E pod \in PodsOf(cache, G) : pod.PodName = last.event.reg.PodName

\* a second pod joined a group that has two registered subscribers
C15_Witness ==
  /\ last.event.kind = EventRegister
  /\ LastKey \notin DOMAIN last.before.services
  /\ Len(last.sent) = 2
  /\ Len(last.sent[1].payload.Pods) = 2

\* C16: an unregister event for a registered pod P of group G removes P and
\* sends exactly one `unregister` notification to each remaining registered
\* subscriber of G, whose pod list is exactly the pods still registered under G
\* (empty when P was the last pod).
C16_UnregisterFanOut ==
  (last.event.kind = EventUnregister /\ LastKey \in DOMAIN last.before.services) =>
    LET G == last.event.ServiceName
    IN /\ LastKey \notin DOMAIN cache.services
       /\ last.calls = 1
       /\ FanOut(last.sent, cache, RegisteredSubscribers(cache, G), G,
                 EventTypeUnregister, PodsOf(cache, G))
       /\ PodsOf(cache, G) = PodsOf(last.before, G) \ {PodEntry(last.before.services[LastKey])}

\* the last pod of a group was unregistered and a subscriber of the group was
\* sent the empty pod list
C16_Witness ==
  /\ last.event.kind = EventUnregister
  /\ LastKey \in DOMAIN last.before.services
  /\ Len(last.sent) >= 1
  /\ last.sent[1].payload.Pods = <<>>

\* the sends of a handler that are about the group, in the order sent
SendsAbout(sent, group) == SelectSeq(sent, LAMBDA x : x.payload.ServiceName = group)

\* the groups a notification can be about: the service names and the groups
\* named in subscription lists
Groups == ServiceNames \cup UNION { Range(subs) : subs \in SubscriptionLists }

C18_ReconcileRepairsEverySubscription ==
  last.event.kind = EventReconcile =>
    \A k \in DOMAIN cache.services :
      \A G \in Range(cache.services[k].Subscriptions) :
        \E i \in DOMAIN last.sent :
          /\ last.sent[i].to = k
          /\ last.sent[i].payload.ServiceName = G
          /\ Range(last.sent[i].payload.Pods) = PodsOf(cache, G)

\* C19: between two consecutive registry states that both hold a key, the
\* status stored under the key differs only when the step was an
\* UpdateHealthStatus of that key (the healthcheck handler).
C19_StatusChangesOnlyByUpdateHealthStatus ==
  \A k \in (DOMAIN last.before.services) \cap (DOMAIN cache.services) :
    last.before.services[k].Status # cache.services[k].Status
    => (last.event.kind = EventHealthCheck /\ LastKey = k)

\* C20: every stored service has a status among healthy, unhealthy and
\* unknown, and the ServiceInfo produced by Register has status unknown.
C20_StatusInEnumAndInitiallyUnknown ==
  /\ \A k \in DOMAIN cache.services : cache.services[k].Status \in Statuses
  /\ \A reg \in ValidRegistrations :
       LET r == Register(cache, reg, now)
       IN /\ r.service.Status = StatusUnknown
          /\ r.store.services[GetKey(reg)].Status = StatusUnknown
  /\ last.event.kind = EventRegister => cache.services[LastKey].Status = StatusUnknown

\* a pod that a health check had found unhealthy was registered again while
\* the registry holds another pod
C20_Witness ==
  /\ last.event.kind = EventRegister
  /\ LastKey \in DOMAIN last.before.services
  /\ last.before.services[LastKey].Status = StatusUnhealthy
  /\ Cardinality(DOMAIN cache.services) >= 2

\* C21: while a key stays present in the registry, no healthcheck, reconcile
\* or register event changes the registeredAt value stored under it.
C21_RegisteredAtSetOnce ==
  \A k \in (DOMAIN last.before.services) \cap (DOMAIN cache.services) :
    last.event.kind \in {EventHealthCheck, EventReconcile, EventRegister}
    => cache.services[k].RegisteredAt = last.before.services[k].RegisteredAt

\* the positions in done of the handler invocations of event
Completions(event) ==
  { i \in 1..Len(done) : accepted[done[i].seq] = event }

\* the position in done since which key has been present without interruption:
\* that of its last completed unregister event, 0 when there is none
PresentSince(key) ==
  LET gone == UNION { Completions(UnregisterEvent(sp[1], sp[2])) :
                        sp \in { q \in Pods : q[1] \o ":" \o q[2] = key } }
  IN IF gone = {} THEN 0 ELSE CHOOSE i \in gone : \A j \in gone : j <= i

\* the healthcheck events that completed for the service stored under key:
\* handled while it was stored, up to the status update
CompletedHealthChecks(key) ==
  { i \in Completions(HealthCheckEvent(key)) :
      i > PresentSince(key) /\ done[i].probe # "none" }

\* C22: for every stored service, lastHealthCheck is non-zero if and only if at
\* least one healthcheck event has completed for it.
C22_LastHealthCheckIffChecked ==
  \A k \in DOMAIN cache.services :
    (cache.services[k].LastHealthCheck # ZeroTime) <=> (CompletedHealthChecks(k) # {})

\* C23: CheckHealth sends at most maxRetries+1 probes, returns true at the
\* first attempt answered with a 2xx status without a further attempt, and
\* returns false exactly when all maxRetries+1 attempts have failed.
C23_AtMostMaxRetriesPlusOneAttempts ==
  /\ checker.gets <= checker.maxRetries + 1
  /\ checker.attempt <= checker.maxRetries + 1
  /\ checker.pc = "returned" =>
       /\ checker.result <=> (checker.failed < checker.maxRetries + 1)
       /\ ~checker.result <=> (checker.failed = checker.maxRetries + 1)
       /\ checker.result =>
            /\ checker.failed = checker.attempt
            /\ checker.gets = checker.attempt + 1
       /\ ~checker.result => checker.gets = (IF checker.urlOk THEN checker.failed ELSE 0)

\* a probe was answered with a 2xx status at a retry, after two failed
\* attempts and with attempts to spare
C23_Witness ==
  /\ checker.pc = "returned"
  /\ checker.result
  /\ checker.failed >= 2
  /\ checker.attempt < checker.maxRetries

\* 2^n seconds as a duration of any width
PowerOfTwoSeconds(n) == { j + n : j \in Second }

\* C24: there is no wait before the first attempt, and the wait before the
\* k-th retry is 2^(k-1) seconds.
C24_ExponentialBackoff ==
  /\ checker.pc \in {"request", "returned"} /\ checker.attempt = 0 => checker.waited = {}
  /\ checker.pc = "sleep" => checker.waited = PowerOfTwoSeconds(checker.attempt - 1)

\* C25: a NotifySubscribers call starts one sendNotification task per
\* subscriber of the list, every task makes one POST attempt and none after it
\* whatever came back, and the call goes on and returns whatever the state of
\* the tasks it started.
C25_OneAttemptNoWait ==
  /\ Len(notifier.tasks) = notifier.next - 1
  /\ notifier.pc = "returned" => Len(notifier.tasks) = Len(notifier.subscribers)
  /\ \A i \in DOMAIN notifier.tasks :
       LET task == notifier.tasks[i]
       IN /\ task.posts <= 1
          /\ task.pc = "spawned" => task.posts = 0
          /\ task.pc = "posting" => task.posts = 1
          /\ task.pc = "done" =>
               task.posts = (IF notifier.subscribers[i] THEN 1 ELSE 0)
  /\ notifier.pc = "spawning" => ENABLED (NotifySpawn \/ NotifyReturn)

\* the call has returned while one POST has failed, one is in flight and one
\* task has not run yet
C25_Witness ==
  /\ notifier.pc = "returned"
  /\ \E i, j, k \in DOMAIN notifier.tasks :
       /\ notifier.tasks[i].pc = "done" /\ notifier.tasks[i].outcome \in {"non2xx", "error"}
       /\ notifier.tasks[j].pc = "posting"
       /\ notifier.tasks[k].pc = "spawned"

\* the positions in accepted of the events HTTP requests enqueued
HttpAccepted == { i \in 1..Len(accepted) : accepted[i].kind = EventRegister }

\* the request numbers of a set of producer records
Ids(records) == { r.id : r \in records }

\* C26: the queue never holds more than BufferSize pending events; an Enqueue
\* call on a full buffer blocks, accepting nothing, and a blocked call whose
\* deadline elapses fails with Overloaded without its event ever reaching the
\* queue or a handler.
C26_BoundedQueueBlocksThenOverloaded ==
  /\ [](/\ Len(queue) <= BufferSize
        /\ Ids(producers.blocked) \cap Ids(producers.admitted) = {}
        /\ producers.overloaded \cap Ids(producers.admitted) = {}
        /\ producers.overloaded \cap Ids(producers.blocked) = {}
        /\ Ids(producers.blocked) \cup Ids(producers.admitted) \cup producers.overloaded
             = 1..producers.requests
        /\ { a.seq : a \in producers.admitted } = HttpAccepted
        /\ Cardinality(producers.admitted) = Cardinality(HttpAccepted)
        /\ \A h \in running : h.seq \in 1..Len(accepted)
        /\ \A i \in DOMAIN done : done[i].seq \in 1..Len(accepted))
  /\ [][/\ accepted' # accepted => Len(queue) < BufferSize
        /\ ~(producers'.blocked \subseteq producers.blocked) =>
             Len(queue) >= BufferSize /\ accepted' = accepted
        /\ producers'.overloaded # producers.overloaded =>
             /\ accepted' = accepted /\ queue' = queue
             /\ Ids(producers'.admitted) = Ids(producers.admitted)
             /\ \E b \in producers.blocked : producers'.overloaded = producers.overloaded \cup {b.id}
        /\ reconcileScheduler'.pc = "blocked" /\ reconcileScheduler.pc # "blocked" =>
             Len(queue) >= BufferSize /\ accepted' = accepted]_vars

\* with the buffer full and the reconcile scheduler blocked in Enqueue, one
\* request has been answered Overloaded and the handlers go on
C26_Witness ==
  /\ Len(queue) = BufferSize
  /\ producers.overloaded # {}
  /\ reconcileScheduler.pc = "blocked"
  /\ handled >= 1

\* C27: when the mirror write of a handler's store operations fails, the
\* operation still takes effect in the cache: a register stores the new record
\* and lists its key under every group of its subscriptions, an unregister
\* removes the record, a health check stores the probed status.
C27_MirrorFailureDoesNotFailOperation ==
  db.present /\ db.failed # {} =>
    /\ last.event.kind = EventRegister =>
         /\ LastKey \in DOMAIN cache.services
         /\ cache.services[LastKey] = NewServiceInfo(last.event.reg, last.at)
         /\ \A g \in Range(last.event.reg.Subscriptions) :
              LastKey \in Range(GetSubscribers(cache, g))
    /\ last.event.kind = EventUnregister => LastKey \notin DOMAIN cache.services
    /\ last.event.kind = EventHealthCheck /\ last.probe # "none" =>
         /\ cache.services[LastKey].Status = last.probe
         /\ cache.services[LastKey].LastHealthCheck = last.at

\* C28: SyncFromDatabase runs only in the handler of a reconcile event and only
\* with a database configured; without a database a reconcile event leaves the
\* stored services and the subscription index as they were.
C28_SyncOnlyInReconcileWithDatabase ==
  /\ db.synced => last.event.kind = EventReconcile /\ db.present
  /\ last.event.kind # EventReconcile => ~db.synced
  /\ last.event.kind = EventReconcile /\ ~db.present => cache = last.before

\* a reconcile with a database replaced the cache contents by what the
\* database held
C28_Witness ==
  /\ last.event.kind = EventReconcile
  /\ db.present /\ db.synced
  /\ cache # last.before
  /\ cache.services = db.services

\* the number of entries of the sequence services stored under key
EntriesOf(services, key) ==
  Cardinality({ i \in DOMAIN services : GetKey(services[i]) = key })

\* C29: the key of a pod is serviceName ":" podName and the registry holds at
\* most one ServiceInfo per key: a register of a present key replaces its
\* record and adds none.
C29_OneServiceInfoPerKey ==
  /\ \A k \in DOMAIN cache.services :
       /\ k = cache.services[k].ServiceName \o ":" \o cache.services[k].PodName
       /\ GetKey(cache.services[k]) = k
  /\ \A services \in GetAllServices(cache) :
       /\ Len(services) = Cardinality(DOMAIN cache.services)
       /\ \A k \in DOMAIN cache.services : EntriesOf(services, k) = 1
  /\ last.event.kind = EventRegister =>
       LET key == last.event.reg.ServiceName \o ":" \o last.event.reg.PodName
       IN /\ key \in DOMAIN cache.services
          /\ cache.services[key] = NewServiceInfo(last.event.reg, last.at)
          /\ DOMAIN cache.services = DOMAIN last.before.services \cup {key}
          /\ \A k \in DOMAIN last.before.services \ {key} :
               cache.services[k] = last.before.services[k]

\* a pod was registered again with another subscriptions list while another
\* pod of its group and a pod of another group are stored
C29_Witness ==
  /\ last.event.kind = EventRegister
  /\ LastKey \in DOMAIN last.before.services
  /\ last.before.services[LastKey].Subscriptions # cache.services[LastKey].Subscriptions
  /\ Cardinality(DOMAIN cache.services) = 3

\* C30: DefaultConfig is port 8080, health checks every 30 s with a 5 s
\* timeout and 3 retries, reconcile every 60 s, a 5 s notification timeout and
\* a queue of 1000 events; a manager built from a nil config keeps and hands to
\* its components exactly these values.
C30_DefaultConfigValues ==
  /\ DefaultConfig.ServerPort = 8080
  /\ DefaultConfig.HealthCheckInterval = 30
  /\ DefaultConfig.HealthCheckTimeout = 5
  /\ DefaultConfig.HealthCheckRetry = 3
  /\ DefaultConfig.NotificationInterval = 60
  /\ DefaultConfig.NotificationTimeout = 5
  /\ DefaultConfig.EventQueueSize = 1000
  /\ DOMAIN DefaultConfig = DOMAIN ZeroConfig
  /\ config.pc = "built" /\ config.given.nil =>
       /\ config.effective = DefaultConfig
       /\ config.wired =
            [BufferSize |-> 1000, notifierTimeout |-> 5, healthCheckTimeout |-> 5,
             maxRetries |-> 3, healthCheckInterval |-> 30, reconcileInterval |-> 60,
             Addr |-> 8080]
  /\ config.pc = "built" /\ ~config.given.nil =>
       /\ config.effective = config.given.value
       /\ config.wired = Wire(config.given.value)

\* a manager with a database was built from a nil config
C30_Witness ==
  /\ config.pc = "built"
  /\ config.given.nil
  /\ db.present

\* C31: a healthcheck event whose key is not registered when it is handled
\* performs no probe, creates and modifies no service and sends no
\* notification: its handler returns from the lookup, and no probe is ever in
\* progress for a key that is not registered.
C31_HealthCheckOfAbsentKeyIsNoOp ==
  /\ [](\A h \in running :
          h.pc \in {"probe", "sleep", "update"}
          => h.event.ServiceKey \in DOMAIN cache.services)
  /\ [][ \A h \in running :
           ( /\ h.event.kind = EventHealthCheck
             /\ h.pc = "handler"
             /\ h.event.ServiceKey \notin DOMAIN cache.services
             /\ h \notin running' )
           => /\ cache' = cache
              /\ \A g \in running' : g.seq # h.seq
              /\ Len(done') = Len(done) + 1
              /\ done'[Len(done')].seq = h.seq
              /\ done'[Len(done')].probe = "none"
              /\ last'.event = h.event
              /\ last'.calls = 0
              /\ last'.sent = <<>> ]_vars

\* a pod was unregistered after the scheduler had put it into its snapshot, and
\* the healthcheck event of the snapshot was handled right after the unregister
C31_Witness ==
  /\ last.event.kind = EventHealthCheck
  /\ LastKey \notin DOMAIN last.before.services
  /\ last.probe = "none"
  /\ prev.event.kind = EventUnregister
  /\ PrevKey = LastKey
  /\ PrevKey \in DOMAIN prev.before.services
  /\ cache = last.before

\* the events a step adds to the accepted ones
NewlyAccepted == SubSeq(accepted', Len(accepted) + 1, Len(accepted'))

\* C32: each tick of the HealthCheckScheduler enqueues exactly one healthcheck
\* event per key of the snapshot it takes at that tick (the keys registered
\* then, each once), each tick of the ReconcileScheduler enqueues exactly one
\* reconcile event, and neither scheduler enqueues anything between ticks.
C32_OneEventPerKeyPerTick ==
  /\ [](healthScheduler.pc \in {"idle", "select", "scan", "exited"} <=> burst = <<>>)
  /\ [][ /\ Len(NewlyAccepted) <= 1
         \* the snapshot of a tick: every registered key once, nothing enqueued yet
         /\ (healthScheduler.pc = "scan" /\ healthScheduler'.pc # "scan")
            => /\ \A i, j \in DOMAIN burst' : burst'[i] = burst'[j] => i = j
               /\ ~healthScheduler.raced => Range(burst') = DOMAIN cache.services
               /\ NewlyAccepted = <<>>
         \* the tick is a sequence of Enqueue calls, one for each key in turn
         /\ (healthScheduler.pc \in {"burst", "blocked"} /\ burst' # burst)
            => /\ burst' = Tail(burst)
               /\ NewlyAccepted = <<HealthCheckEvent(Head(burst))>>
         /\ (healthScheduler.pc \in {"burst", "blocked"} /\ healthScheduler'.pc = "select")
            => burst' = <<>> /\ burst # <<>>
         \* a healthcheck event is accepted only from a tick, for its next key
         /\ NewlyAccepted # <<>> /\ NewlyAccepted[1].kind = EventHealthCheck
            => /\ healthScheduler.pc \in {"burst", "blocked"}
               /\ NewlyAccepted[1] = HealthCheckEvent(Head(burst))
               /\ burst' = Tail(burst)
         \* a reconcile tick is exactly one Enqueue call
         /\ (reconcileScheduler.pc = "select" /\ reconcileScheduler'.pc # "select")
            => reconcileScheduler'.pc \in {"enqueue", "exited"} /\ NewlyAccepted = <<>>
         /\ (reconcileScheduler.pc \in {"enqueue", "blocked"}
             /\ reconcileScheduler'.pc = "select")
            => NewlyAccepted = <<ReconcileEvent>>
         /\ NewlyAccepted # <<>> /\ NewlyAccepted[1].kind = EventReconcile
            => /\ reconcileScheduler.pc \in {"enqueue", "blocked"}
               /\ reconcileScheduler'.pc = "select" ]_vars

\* the group a register or unregister event is about
EventGroup(event) ==
  IF event.kind = EventRegister THEN event.reg.ServiceName ELSE event.ServiceName

\* C33: notifications are dispatched in the order of the events that caused
\* them: the goroutines were started in the order in which their events were
\* accepted, so of two notifications about one group to one subscriber the
\* send for the earlier event is started first; the order in which the
\* subscriber receives them is not fixed.
C33_DispatchedInEventOrder ==
  /\ \A i, j \in DOMAIN notifier.tasks :
       i < j => notifier.tasks[i].seq <= notifier.tasks[j].seq
  /\ \A i \in DOMAIN notifier.tasks :
       /\ notifier.tasks[i].seq \in { done[k].seq : k \in DOMAIN done }
       /\ notifier.tasks[i].group = EventGroup(accepted[notifier.tasks[i].seq])

\* a subscriber has received the notification of a later event about a group
\* before that of an earlier event about the same group
C33_Witness ==
  \E i, j \in DOMAIN notifier.tasks :
    /\ notifier.tasks[i].seq < notifier.tasks[j].seq
    /\ notifier.tasks[i].to = notifier.tasks[j].to
    /\ notifier.tasks[i].group = notifier.tasks[j].group
    /\ notifier.tasks[i].rank > 0
    /\ notifier.tasks[j].rank > 0
    /\ notifier.tasks[j].rank < notifier.tasks[i].rank

IndexedSubscribers(m, group) ==
  { k \in DOMAIN m.services : k \in Range(GetSubscribers(m, group)) }

\* C35: when SaveService returns an error inside Register for a key that is
\* already registered, the old record stays stored, the key is listed under no
\* group of the index any more (the old subscriptions are retracted, the new
\* ones not added), Register returns the new ServiceInfo and the handler fans
\* out a `register` notification.
C35_SaveErrorLeavesOldRecordUnindexed ==
  /\ ( /\ last.event.kind = EventRegister
       /\ last.probe = "saveError"
       /\ LastKey \in DOMAIN last.before.services )
     => LET G == last.event.reg.ServiceName
            old == last.before.services[LastKey]
        IN /\ cache.services = last.before.services
           /\ cache.subscriptions =
                removeSubscriptions(last.before, LastKey, old.Subscriptions).subscriptions
           /\ IndexedGroups(cache, LastKey) = {}
           /\ last.calls = 1
           /\ FanOut(last.sent, cache, IndexedSubscribers(cache, G), G,
                     EventTypeRegister, PodsOf(cache, G))
  /\ \A reg \in ValidRegistrations :
       RegisterFallible(cache, reg, now, TRUE).service = NewServiceInfo(reg, now)

\* SaveService failed for two register events in a row, each for a registered
\* key that was listed in the index: the first notified a subscriber of the
\* pod's group, the second carried a group its key was not listed under
C35_Witness ==
  /\ prev.event.kind = EventRegister
  /\ prev.probe = "saveError"
  /\ PrevKey \in DOMAIN prev.before.services
  /\ IndexedGroups(prev.before, PrevKey) # {}
  /\ prev.sent # <<>>
  /\ last.event.kind = EventRegister
  /\ last.probe = "saveError"
  /\ LastKey \in DOMAIN last.before.services
  /\ IndexedGroups(last.before, LastKey) # {}
  /\ Range(last.event.reg.Subscriptions) \ IndexedGroups(last.before, LastKey) # {}
  /\ last.calls = 1

\* the positions of the sends that go to the key
SendsTo(sent, key) == { i \in DOMAIN sent : sent[i].to = key }

\* C36: a pod that subscribes to its own group is sent the `register`
\* notification caused by its own registration, and is not sent the
\* `unregister` notification caused by its own unregistration.
C36_SelfSubscriberNotifiedOnRegisterOnly ==
  /\ ( /\ last.event.kind = EventRegister
       /\ last.event.reg.ServiceName \in Range(last.event.reg.Subscriptions) )
     => /\ Cardinality(SendsTo(last.sent, LastKey)) = 1
        /\ \A i \in SendsTo(last.sent, LastKey) :
             /\ last.sent[i].payload.EventType = EventTypeRegister
             /\ last.sent[i].payload.ServiceName = last.event.reg.ServiceName
             /\ \E j \in DOMAIN last.sent[i].payload.Pods :
                  last.sent[i].payload.Pods[j].PodName = last.event.reg.PodName
  /\ ( /\ last.event.kind = EventUnregister
       /\ LastKey \in DOMAIN last.before.services )
     => SendsTo(last.sent, LastKey) = {}

\* a pod that subscribes to its own group was sent the notification of its own
\* registration; its unregistration, the next event, notified the other
\* subscriber of the group and not the pod
C36_Witness ==
  /\ prev.event.kind = EventRegister
  /\ prev.event.reg.ServiceName \in Range(prev.event.reg.Subscriptions)
  /\ SendsTo(prev.sent, PrevKey) # {}
  /\ last.event.kind = EventUnregister
  /\ LastKey = PrevKey
  /\ last.event.ServiceName \in IndexedGroups(last.before, LastKey)
  /\ last.sent # <<>>
  /\ SendsTo(last.sent, LastKey) = {}

\* the position in done of the last completed register event of the key, 0
\* when there is none
RegisteredSince(key) ==
  LET regs == UNION { Completions(RegisterEvent(reg)) :
                        reg \in { r \in ValidRegistrations : GetKey(r) = key } }
  IN IF regs = {} THEN 0 ELSE CHOOSE i \in regs : \A j \in regs : j <= i

\* the healthcheck events of the key that were handled up to the status update
\* since its most recent registration
ChecksSinceRegistration(key) ==
  { i \in Completions(HealthCheckEvent(key)) :
      i > RegisteredSince(key) /\ done[i].probe # "none" }

\* C37: in the memory-only configuration every stored service has status
\* unknown iff its lastHealthCheck is zero iff no healthcheck event of its key
\* was handled since its most recent registration; a healthcheck stores only
\* healthy or unhealthy, so a healthcheck that finds status unknown always
\* reports a status change.
C37_UnknownIffNeverCheckedSinceRegistration ==
  /\ \A k \in DOMAIN cache.services :
       /\ (cache.services[k].Status = StatusUnknown)
            <=> (cache.services[k].LastHealthCheck = ZeroTime)
       /\ (cache.services[k].LastHealthCheck = ZeroTime)
            <=> (ChecksSinceRegistration(k) = {})
  /\ (last.event.kind = EventHealthCheck /\ LastKey \in DOMAIN last.before.services)
     => /\ last.probe \in {StatusHealthy, StatusUnhealthy}
        /\ cache.services[LastKey].Status = last.probe
        /\ last.before.services[LastKey].Status = StatusUnknown => last.calls = 1

\* a pod was checked, registered again and checked again: the second check
\* found status unknown and reported a change
C37_Witness ==
  /\ last.event.kind = EventHealthCheck
  /\ LastKey \in DOMAIN last.before.services
  /\ last.before.services[LastKey].Status = StatusUnknown
  /\ last.calls = 1
  /\ Cardinality({ i \in Completions(HealthCheckEvent(LastKey)) : done[i].probe # "none" }) >= 2
  /\ RegisteredSince(LastKey) > 1
  /\ Cardinality(ChecksSinceRegistration(LastKey)) = 1

\* the (serviceName, podName) pair of a record
PairOf(service) == <<service.ServiceName, service.PodName>>

\* the pair a register or unregister event names
EventPair(event) ==
  IF event.kind = EventRegister THEN PairOf(event.reg)
  ELSE <<event.ServiceName, event.PodName>>

\* C38: distinct (serviceName, podName) pairs never share a registry key, so a
\* register or unregister event of one pod never overwrites or removes the
\* record of a different pod, also when names contain the ':' separator.
C38_DistinctPodsDistinctKeys ==
  last.event.kind \in {EventRegister, EventUnregister}
  => /\ \A k \in DOMAIN last.before.services :
          PairOf(last.before.services[k]) # EventPair(last.event)
          => /\ LastKey # k
             /\ k \in DOMAIN cache.services
             /\ cache.services[k] = last.before.services[k]

\* the list without the key
Without(subscribers, key) == SelectSeq(subscribers, LAMBDA x : x # key)

\* C39: RemoveAllSubscriptions(k), which removes entries from the subscription
\* map while it iterates over it, ends with k in the subscriber list of no
\* group, leaves the entries of every other subscriber as they were and
\* deletes every group whose list became empty, whatever the iteration order.
C39_RemoveAllSubscriptionsComplete ==
  /\ last.event.kind = "RemoveAllSubscriptions"
     => LET k == last.event.subscriberKey
        IN /\ cache.services = last.before.services
           /\ \A g \in DOMAIN cache.subscriptions : k \notin Range(cache.subscriptions[g])
           /\ DOMAIN cache.subscriptions =
                { g \in DOMAIN last.before.subscriptions :
                    Without(last.before.subscriptions[g], k) # <<>> }
           /\ \A g \in DOMAIN cache.subscriptions :
                cache.subscriptions[g] = Without(last.before.subscriptions[g], k)
  /\ \A k \in SubscriberKeys : Cardinality(RemoveAllSubscriptions(cache, k)) = 1

\* a subscriber listed under two groups was removed from all: the group it was
\* alone in is gone, the other keeps its other subscriber
C39_Witness ==
  /\ last.event.kind = "RemoveAllSubscriptions"
  /\ Cardinality(IndexedGroups(last.before, last.event.subscriberKey)) = 2
  /\ Cardinality(DOMAIN last.before.subscriptions) = 2
  /\ Cardinality(DOMAIN cache.subscriptions) = 1

\* C40: after any sequence of AddSubscription, RemoveSubscription and
\* RemoveAllSubscriptions calls the subscription map holds no group with an
\* empty list and no subscriber twice in a list; AddSubscription of a present
\* pair and RemoveSubscription of an absent pair leave the map unchanged.
C40_NoEmptyGroupNoDuplicate ==
  /\ \A g \in DOMAIN cache.subscriptions :
       /\ cache.subscriptions[g] # <<>>
       /\ \A i, j \in DOMAIN cache.subscriptions[g] :
            cache.subscriptions[g][i] = cache.subscriptions[g][j] => i = j
  /\ ( /\ last.event.kind = "AddSubscription"
       /\ last.event.subscriberKey \in
            Range(GetSubscribers(last.before, last.event.serviceGroup)) )
     => cache = last.before
  /\ ( /\ last.event.kind = "RemoveSubscription"
       /\ last.event.subscriberKey \notin
            Range(GetSubscribers(last.before, last.event.serviceGroup)) )
     => cache = last.before

\* a pair that was present was added again while the map holds another group
\* and another subscriber of the same group
C40_Witness ==
  /\ last.event.kind = "AddSubscription"
  /\ last.event.subscriberKey \in
       Range(GetSubscribers(last.before, last.event.serviceGroup))
  /\ Len(GetSubscribers(cache, last.event.serviceGroup)) >= 2
  /\ Cardinality(DOMAIN cache.subscriptions) = 2

====
